---- MODULE Spec2Model ----
(***************************************************************************)
(* The ikas documentation server: SmartCrawler.crawl (scraper/core.ts),    *)
(* the crawl_site / rebuild_index / search_docs tool handlers and the      *)
(* start-up index build (mcp/tool-handlers.ts), over a document store and  *)
(* a fetcher that answer each call by succeeding or failing.               *)
(*                                                                         *)
(* A URL is the sequence of the pieces of its text, the origin first:      *)
(* <<"https://ikas.dev", "/docs", "/intro">> is                            *)
(* https://ikas.dev/docs/intro.  A page's HTML is the sequence of the      *)
(* hrefs of its anchors, in document order.                                *)
(***************************************************************************)
EXTENDS Integers, Sequences, FiniteSets, TLC

\* ------------------------------------------------------------------ bounds
\* crawl options are tried with maxPages in 0..MaxPagesOpt
MaxPagesOpt == 5
\* crawl options are tried with maxDepth in 0..MaxDepthOpt
MaxDepthOpt == 1
\* tool calls a client makes in one behaviour
MaxCalls == 2
\* a client whose calls overlap crawls with maxPages up to MaxPagesOverlap
MaxPagesOverlap == 2

\* --------------------------------------------------------------- constants
DefaultMaxDepth == 10
DefaultMaxPages == 500
DefaultDelayMs == 1000
HandlerMaxPages == 50

baseUrl == "https://ikas.dev"

Seed1 == <<"https://ikas.dev", "/docs", "/intro">>
Seed2 == <<"https://ikas.dev", "/docs", "/api", "/admin-api", "/products">>
Seed3 == <<"https://ikas.dev", "/docs", "/api", "/admin-api", "/orders">>
Seed4 == <<"https://ikas.dev", "/docs", "/api", "/admin-api", "/customers">>
Seed5 == <<"https://ikas.dev", "/playground">>

seedUrls == <<Seed1, Seed2, Seed3, Seed4, Seed5>>

sitemapUrl == <<"https://ikas.dev", "/sitemap.xml">>

\* ---------------------------------------------------------------- the site
GuideUrl == <<"https://ikas.dev", "/docs", "/guide">>
DeepUrl == <<"https://ikas.dev", "/docs", "/guide", "/deep">>
PdfUrl == <<"https://ikas.dev", "/docs", "/manual", ".pdf">>
BlogUrl == <<"https://ikas.dev", "/blog">>
OffsiteUrl == <<"https://ikas.com", "/pricing">>

NoUrl == <<>>

PathTokens ==
  {"/docs", "/intro", "/api", "/admin-api", "/products", "/orders", "/customers",
   "/playground", "/guide", "/deep", "/manual", "/blog", "/pricing", "/sitemap.xml"}

BinaryExtensions == {".pdf", ".zip", ".png", ".jpg", ".jpeg", ".gif"}

\* what the site serves for a URL: the hrefs of the page's anchors
LiveHtml(url) ==
  CASE url = Seed1 -> <<Seed2, GuideUrl, PdfUrl, BlogUrl, OffsiteUrl, GuideUrl>>
    [] url = Seed2 -> <<Seed1>>
    [] url = Seed4 -> <<GuideUrl>>
    [] url = Seed5 -> <<Seed1, BlogUrl>>
    [] url = GuideUrl -> <<DeepUrl, Seed1>>
    [] url = DeepUrl -> <<GuideUrl>>
    [] OTHER -> <<>>

\* the <loc> entries of the site's sitemap.xml
SitemapLocs == <<BlogUrl, PdfUrl, GuideUrl, OffsiteUrl, Seed1>>

\* an older copy of the intro page, as a store filled by an earlier run holds it
OldIntroHtml == <<DeepUrl, BlogUrl>>

AllUrls ==
  {Seed1, Seed2, Seed3, Seed4, Seed5, GuideUrl, DeepUrl, PdfUrl, BlogUrl,
   OffsiteUrl, sitemapUrl}

\* ------------------------------------------------------- url admission
\* RegExp.test(url) for the patterns the options carry, by pattern source:
\*   "docs"        /\/docs\//
\*   "playground"  /\/playground/
\*   "binary"      /\.(pdf|zip|png|jpg|jpeg|gif)$/i
PatternTest(pattern, url) ==
  CASE pattern = "docs" ->
         \E i \in 1..(Len(url) - 1) : url[i] = "/docs" /\ url[i + 1] \in PathTokens
    [] pattern = "playground" -> \E i \in 1..Len(url) : url[i] = "/playground"
    [] pattern = "binary" -> Len(url) > 0 /\ url[Len(url)] \in BinaryExtensions
    [] OTHER -> FALSE

ShouldCrawl(url, includePatterns, excludePatterns) ==
  IF \E pattern \in excludePatterns : PatternTest(pattern, url) THEN FALSE
  ELSE IF includePatterns = {} THEN TRUE
  ELSE \E pattern \in includePatterns : PatternTest(pattern, url)

\* ------------------------------------------------------- link harvesting
RECURSIVE Dedup(_)
\* a Set<string> built by add(), read back in insertion order
Dedup(seq) ==
  IF seq = <<>> THEN <<>>
  ELSE LET rest == Dedup(SubSeq(seq, 1, Len(seq) - 1))
           last == seq[Len(seq)]
       IN IF \E i \in 1..Len(rest) : rest[i] = last THEN rest ELSE Append(rest, last)

StartsWithBase(url) == Len(url) > 0 /\ url[1] = baseUrl

ExtractLinks(html) == Dedup(SelectSeq(html, StartsWithBase))

\* the urls fetchSitemap returns from a fetched sitemap
SitemapUrlsOf(locs) ==
  LET UnderSite(url) == Len(url) > 1 /\ url[1] = baseUrl /\ url[2] \in PathTokens
  IN SelectSeq(locs, UnderSite)

\* queue entries one level deeper than asked for
EntriesTooDeep(urls, depth) ==
  [i \in 1..Len(urls) |-> [url |-> urls[i], depth |-> depth + 1]]

\* the queue entries for a list of urls at one depth
RECURSIVE Entries(_, _)
Entries(urls, depth) ==
  IF urls = <<>> THEN <<>>
  ELSE <<[url |-> Head(urls), depth |-> depth]>> \o Entries(Tail(urls), depth)

\* the links of a page that crawl pushes: admitted and not yet visited
NewLinks(html, vis, opts) ==
  LET Wanted(link) ==
        ShouldCrawl(link, opts.includePatterns, opts.excludePatterns) /\ link \notin vis
  IN SelectSeq(ExtractLinks(html), Wanted)

\* ------------------------------------------------------------- options
DefaultOptions ==
  [maxDepth |-> DefaultMaxDepth, maxPages |-> DefaultMaxPages,
   delayMs |-> DefaultDelayMs,
   includePatterns |-> {"docs", "playground"}, excludePatterns |-> {"binary"}]

\* options a caller of crawl() passes, one option away from the defaults
CrawlOptionChoices ==
  {[DefaultOptions EXCEPT !.maxPages = n] : n \in 0..MaxPagesOpt}
  \cup {[DefaultOptions EXCEPT !.maxDepth = d] : d \in 0..MaxDepthOpt}
  \cup {[DefaultOptions EXCEPT !.delayMs = 0],
        [DefaultOptions EXCEPT !.excludePatterns = {"binary", "playground"}],
        [DefaultOptions EXCEPT !.includePatterns = {}]}

\* the options handleCrawlSite passes on: maxPages and delayMs from the arguments
CrawlSiteOptions ==
  {[DefaultOptions EXCEPT !.maxPages = n] : n \in (0..MaxPagesOpt) \cup {HandlerMaxPages}}
  \cup {[DefaultOptions EXCEPT !.maxPages = HandlerMaxPages, !.delayMs = 0]}

\* --------------------------------------------------------- collaborators
\* How the fetcher and the store answer: the urls whose fetch fails, whose
\* store lookup, write or read fails, and whose fetched html cannot be parsed.
Healthy ==
  [down |-> {}, hasFails |-> {}, setFails |-> {}, getFails |-> {}, badHtml |-> {}]

Unreachable == [Healthy EXCEPT !.down = AllUrls]

Flaky ==
  [down |-> {sitemapUrl, Seed2, GuideUrl}, hasFails |-> {Seed4},
   setFails |-> {Seed3}, getFails |-> {Seed1}, badHtml |-> {Seed5}]

Environments == {Healthy, Unreachable, Flaky}

EmptyStore == [u \in {} |-> <<>>]

\* what the store holds when the server starts
InitialStores ==
  {EmptyStore, (Seed1 :> OldIntroHtml) @@ (BlogUrl :> <<>>)}

\* cache.list(): the stored urls, in the order of the store's directory
UrlOrder ==
  <<BlogUrl, DeepUrl, GuideUrl, PdfUrl, Seed1, Seed2, Seed3, Seed4, Seed5>>

ListOf(store) ==
  LET Stored(url) == url \in DOMAIN store
  IN SelectSeq(UrlOrder, Stored)

\* ------------------------------------------------------------------ state
Slots == 1..2

VARIABLES
  env,        \* how the fetcher and the store answer in this behaviour
  client,     \* "serial": one tool call at a time; "concurrent": calls may
              \* overlap; "once": a single tool call
  cache,      \* the document store: url -> stored html
  visited,    \* SmartCrawler.visited
  queue,      \* SmartCrawler.queue
  failed,     \* SmartCrawler.failed
  documents,  \* SearchIndex.documents: the ids (urls) of the indexed documents
  call,       \* the tool calls, each at the await it is suspended at
  startup,    \* the initializeSearchIndex call the constructor started
  started,    \* tool calls made so far
  event,      \* history: the last answer a crawl got from a collaborator
  before,     \* history: the indexed documents when the last rebuild began
  observed,   \* history: what the last search saw
  job         \* the parser, index or dispatcher run in progress, if any

vars ==
  <<env, client, cache, visited, queue, failed, documents, call, startup, started,
    event, before, observed, job>>

NoResult == [urlsDiscovered |-> {}, urlsCrawled |-> {}, urlsFailed |-> {}]

IdleCall ==
  [tool |-> "none", pc |-> "idle", opts |-> DefaultOptions, url |-> NoUrl,
   depth |-> 0, page |-> <<>>, todo |-> <<>>, took |-> {}, result |-> NoResult]

NoEvent == [op |-> "none", url |-> NoUrl, ok |-> TRUE, by |-> 0]

NoSearch == [seen |-> FALSE, docs |-> {}, during |-> FALSE, before |-> {}, stored |-> {}]

NoJob == [kind |-> "none"]

InFlight(c) == call[c].pc \notin {"idle", "returned", "rejected"}

Crawling(c) ==
  call[c].pc \in {"sitemap", "loop", "has", "scrape", "set", "delay", "get"}

Rebuilding ==
  \/ startup.pc \in {"list", "getdoc"}
  \/ \E c \in Slots : call[c].pc \in {"list", "getdoc"}

\* a client may make a call: calls of a serial client do not overlap
MayStart ==
  /\ started < MaxCalls
  /\ client = "once" => started = 0
  /\ client = "concurrent" \/ \A c \in Slots : ~InFlight(c)

FreeSlot(c) == ~InFlight(c) /\ \A d \in Slots : d < c => InFlight(d)

InitWith(mode) ==
  /\ env \in Environments
  /\ client = mode
  /\ cache \in InitialStores
  /\ visited = {}
  /\ queue = <<>>
  /\ failed = {}
  /\ documents = {}
  /\ call = [c \in Slots |-> IdleCall]
  /\ startup = [pc |-> "list", todo |-> <<>>]
  /\ started = 0
  /\ event = NoEvent
  /\ before = {}
  /\ observed = NoSearch
  /\ job = NoJob

Init == InitWith("serial")

\* ------------------------------------------------------------------ crawl
\* the loop test with <= for <
LoopGuardOffByOne(q, vis, maxPages) == Len(q) > 0 /\ Cardinality(vis) <= maxPages

\* while (this.queue.length > 0 && this.visited.size < maxPages)
LoopGuard(q, vis, maxPages) == Len(q) > 0 /\ Cardinality(vis) < maxPages

\* a skip test that lets a failed url be tried again
SkippedUnlessFailed(entry, vis, maxDepth) ==
  (entry.url \in vis /\ entry.url \notin failed) \/ entry.depth > maxDepth

\* the skip test without the visited check
SkippedByDepthOnly(entry, vis, maxDepth) == entry.depth > maxDepth

\* if (this.visited.has(url) || depth > maxDepth) continue
Skipped(entry, vis, maxDepth) == entry.url \in vis \/ entry.depth > maxDepth

\* a result that lists the failed urls apart from the discovered ones
CrawlResultFailedApart(vis, fail) ==
  [urlsDiscovered |-> vis \ fail, urlsCrawled |-> vis \ fail, urlsFailed |-> fail]

\* the result without the filter on failed urls
CrawlResultUnfiltered(vis, fail) ==
  [urlsDiscovered |-> vis, urlsCrawled |-> vis, urlsFailed |-> fail]

CrawlResultOf(vis, fail) ==
  [urlsDiscovered |-> vis, urlsCrawled |-> {u \in vis : u \notin fail},
   urlsFailed |-> fail]

\* crawl(options) up to its first await: reset, seed the queue, ask for the sitemap
StartCrawl(c, tool, opts) ==
  /\ MayStart
  /\ FreeSlot(c)
  /\ client = "concurrent" => opts.maxPages <= MaxPagesOverlap
  /\ visited' = {}
  /\ failed' = {}
  /\ queue' = Entries(seedUrls, 0)
  /\ call' = [call EXCEPT ![c] =
                [IdleCall EXCEPT !.tool = tool, !.pc = "sitemap", !.opts = opts]]
  /\ started' = started + 1
  /\ event' = [op |-> "crawl", url |-> NoUrl, ok |-> TRUE, by |-> c]
  /\ UNCHANGED <<job, env, client, cache, documents, startup, before, observed>>

Crawl == \E c \in Slots, opts \in CrawlOptionChoices : StartCrawl(c, "crawl", opts)

HandleCrawlSite ==
  \E c \in Slots, opts \in CrawlSiteOptions : StartCrawl(c, "crawl_site", opts)

\* fetchSitemap resolves; the admitted sitemap urls are pushed at depth 0
FetchSitemap(c) ==
  /\ call[c].pc = "sitemap"
  /\ LET ok == sitemapUrl \notin env.down
         urls == IF ok THEN SitemapUrlsOf(SitemapLocs) ELSE <<>>
         Admitted(url) ==
           ShouldCrawl(url, call[c].opts.includePatterns, call[c].opts.excludePatterns)
     IN /\ queue' = queue \o Entries(SelectSeq(urls, Admitted), 0)
        /\ event' = [op |-> "sitemap", url |-> sitemapUrl, ok |-> ok, by |-> c]
  /\ call' = [call EXCEPT ![c].pc = "loop"]
  /\ UNCHANGED <<job, env, client, cache, visited, failed, documents, startup, started,
                 before, observed>>

RECURSIVE DropSkipped(_, _, _)
\* the iterations that end in `continue` run without an await: the entries they
\* shift are gone when the loop next suspends or ends
DropSkipped(q, vis, opts) ==
  IF LoopGuard(q, vis, opts.maxPages) /\ Skipped(Head(q), vis, opts.maxDepth)
    THEN DropSkipped(Tail(q), vis, opts)
    ELSE q

\* the loop ends and crawl returns its result
LoopExit(c) ==
  /\ call[c].pc = "loop"
  /\ ~LoopGuard(DropSkipped(queue, visited, call[c].opts), visited, call[c].opts.maxPages)
  /\ queue' = DropSkipped(queue, visited, call[c].opts)
  /\ call' = [call EXCEPT ![c].pc = IF call[c].tool = "crawl" THEN "returned"
                                     ELSE "crawled",
                          ![c].url = NoUrl, ![c].depth = 0,
                          ![c].result = CrawlResultOf(visited, failed)]
  /\ event' = [op |-> "return", url |-> NoUrl, ok |-> TRUE, by |-> c]
  /\ UNCHANGED <<job, env, client, cache, visited, failed, documents, startup,
                 started, before, observed>>

\* the next entry neither visited nor too deep is taken: marked visited, and the
\* store is asked whether it has it
LoopTake(c) ==
  /\ call[c].pc = "loop"
  /\ LoopGuard(DropSkipped(queue, visited, call[c].opts), visited, call[c].opts.maxPages)
  /\ LET entry == Head(DropSkipped(queue, visited, call[c].opts))
     IN /\ queue' = Tail(DropSkipped(queue, visited, call[c].opts))
        /\ visited' = visited \cup {entry.url}
        /\ call' = [call EXCEPT ![c].pc = "has", ![c].url = entry.url,
                                ![c].depth = entry.depth,
                                ![c].took = @ \cup {entry.url}]
        /\ event' = [op |-> "take", url |-> entry.url, ok |-> TRUE, by |-> c]
  /\ UNCHANGED <<job, env, client, cache, failed, documents, startup, started, before,
                 observed>>

\* a loop without the try/catch: the error ends the crawl
CatchAbort(c, op) ==
  /\ failed' = failed
  /\ call' = [call EXCEPT ![c].pc = "rejected", ![c].page = <<>>]
  /\ event' = [op |-> op, url |-> call[c].url, ok |-> FALSE, by |-> c]

\* catch (error): the url is recorded as failed and the loop goes on
Catch(c, op) ==
  /\ failed' = failed \cup {call[c].url}
  /\ call' = [call EXCEPT ![c].pc = "loop", ![c].page = <<>>]
  /\ event' = [op |-> op, url |-> call[c].url, ok |-> FALSE, by |-> c]

\* a crawl that fetches whether or not the store has the url
AfterHasAlwaysScrape(cached) == "scrape"

\* if (!cached) scrape the page, else read the stored one
AfterHas(cached) == IF cached THEN "get" ELSE "scrape"

\* cache.has(url) resolves
HasDone(c) ==
  /\ call[c].pc = "has"
  /\ IF call[c].url \in env.hasFails
       THEN Catch(c, "has")
       ELSE /\ call' = [call EXCEPT ![c].pc = AfterHas(call[c].url \in DOMAIN cache)]
            /\ event' = [op |-> "has", url |-> call[c].url, ok |-> TRUE, by |-> c]
            /\ failed' = failed
  /\ UNCHANGED <<job, env, client, cache, visited, queue, documents, startup, started,
                 before, observed>>

\* scraper.scrapePage(url) resolves
ScrapeDone(c) ==
  /\ call[c].pc = "scrape"
  /\ IF call[c].url \in env.down
       THEN Catch(c, "scrapePage")
       ELSE /\ call' = [call EXCEPT ![c].pc = "set", ![c].page = LiveHtml(call[c].url)]
            /\ event' = [op |-> "scrapePage", url |-> call[c].url, ok |-> TRUE, by |-> c]
            /\ failed' = failed
  /\ UNCHANGED <<job, env, client, cache, visited, queue, documents, startup, started,
                 before, observed>>

\* where the loop goes after a fresh page's links are pushed
AfterFresh(delayMs) == IF delayMs > 0 THEN "delay" ELSE "loop"

\* cache.set(url, page) resolves; then the page's links are pushed
SetDone(c) ==
  /\ call[c].pc = "set"
  /\ IF call[c].url \in env.setFails
       THEN Catch(c, "set") /\ UNCHANGED <<job, cache, queue>>
       ELSE /\ cache' = (call[c].url :> call[c].page) @@ cache
            /\ IF call[c].url \in env.badHtml
                 THEN Catch(c, "extractLinks") /\ queue' = queue
                 ELSE /\ queue' = queue \o Entries(NewLinks(call[c].page, visited,
                                                            call[c].opts),
                                                   call[c].depth + 1)
                      /\ call' = [call EXCEPT ![c].pc = AfterFresh(call[c].opts.delayMs),
                                              ![c].page = <<>>]
                      /\ event' = [op |-> "set", url |-> call[c].url, ok |-> TRUE,
                                   by |-> c]
                      /\ failed' = failed
  /\ UNCHANGED <<job, env, client, visited, documents, startup, started, before, observed>>

\* delay(delayMs) elapses
DelayDone(c) ==
  /\ call[c].pc = "delay"
  /\ call' = [call EXCEPT ![c].pc = "loop"]
  /\ event' = [op |-> "delay", url |-> call[c].url, ok |-> TRUE, by |-> c]
  /\ UNCHANGED <<job, env, client, cache, visited, queue, failed, documents, startup,
                 started, before, observed>>

\* cache.get(url) resolves for a stored url; the stored page's links are pushed
GetDone(c) ==
  /\ call[c].pc = "get"
  /\ IF call[c].url \in env.getFails
       THEN Catch(c, "get") /\ queue' = queue
       ELSE /\ queue' = IF call[c].url \in DOMAIN cache
                          THEN queue \o Entries(NewLinks(cache[call[c].url], visited,
                                                         call[c].opts),
                                                call[c].depth + 1)
                          ELSE queue
            /\ call' = [call EXCEPT ![c].pc = "loop"]
            /\ event' = [op |-> "get", url |-> call[c].url, ok |-> TRUE, by |-> c]
            /\ failed' = failed
  /\ UNCHANGED <<job, env, client, cache, visited, documents, startup, started, before,
                 observed>>

\* ------------------------------------------------------------ the index
\* a rebuild that does not read the listed pages
AfterListSkipsPages(urls) == "returned"

\* where a rebuild goes once cache.list() has answered
AfterList(urls) == IF urls = <<>> THEN "returned" ELSE "getdoc"

\* handleCrawlSite goes on after the crawl: rebuildSearchIndex clears the index
\* and asks the store for its urls
RebuildAfterCrawl(c) ==
  /\ call[c].pc = "crawled"
  /\ documents' = {}
  /\ before' = documents
  /\ call' = [call EXCEPT ![c].pc = "list"]
  /\ UNCHANGED <<job, env, client, cache, visited, queue, failed, startup, started, event,
                 observed>>

\* handleRebuildIndex up to its first await
HandleRebuildIndex ==
  \E c \in Slots :
    /\ MayStart
    /\ FreeSlot(c)
    /\ documents' = {}
    /\ before' = documents
    /\ call' = [call EXCEPT ![c] =
                  [IdleCall EXCEPT !.tool = "rebuild_index", !.pc = "list"]]
    /\ started' = started + 1
    /\ UNCHANGED <<job, env, client, cache, visited, queue, failed, startup, event,
                   observed>>

\* rebuildSearchIndex: cache.list() resolves
RebuildList(c) ==
  /\ call[c].pc = "list"
  /\ call' = [call EXCEPT ![c].todo = ListOf(cache), ![c].pc = AfterList(ListOf(cache))]
  /\ UNCHANGED <<job, env, client, cache, visited, queue, failed, documents, startup,
                 started, event, before, observed>>

\* rebuildSearchIndex: cache.get(url) resolves and the page is added; a failed
\* read rejects the handler
RebuildGet(c) ==
  /\ call[c].pc = "getdoc"
  /\ LET url == Head(call[c].todo)
     IN IF url \in env.getFails
          THEN /\ call' = [call EXCEPT ![c].pc = "rejected", ![c].todo = <<>>]
               /\ documents' = documents
          ELSE /\ documents' = IF url \in DOMAIN cache THEN documents \cup {url}
                               ELSE documents
               /\ call' = [call EXCEPT ![c].todo = Tail(@),
                                       ![c].pc = AfterList(Tail(call[c].todo))]
  /\ UNCHANGED <<job, env, client, cache, visited, queue, failed, startup, started, event,
                 before, observed>>

\* initializeSearchIndex: cache.list() resolves
StartupList ==
  /\ startup.pc = "list"
  /\ startup' = [pc |-> IF ListOf(cache) = <<>> THEN "done" ELSE "getdoc",
                 todo |-> ListOf(cache)]
  /\ UNCHANGED <<job, env, client, cache, visited, queue, failed, documents, call, started,
                 event, before, observed>>

\* initializeSearchIndex: cache.get(url) resolves and the page is added
StartupGet ==
  /\ startup.pc = "getdoc"
  /\ LET url == Head(startup.todo)
     IN IF url \in env.getFails
          THEN /\ startup' = [pc |-> "failed", todo |-> <<>>]
               /\ documents' = documents
          ELSE /\ documents' = IF url \in DOMAIN cache THEN documents \cup {url}
                               ELSE documents
               /\ startup' = [pc |-> IF Tail(startup.todo) = <<>> THEN "done"
                                     ELSE "getdoc",
                              todo |-> Tail(startup.todo)]
  /\ UNCHANGED <<job, env, client, cache, visited, queue, failed, call, started, event,
                 before, observed>>

\* handleSearchDocs: a search over the documents the index holds now
HandleSearchDocs ==
  /\ MayStart
  /\ started' = started + 1
  /\ observed' = [seen |-> TRUE, docs |-> documents, during |-> Rebuilding,
                  before |-> before, stored |-> DOMAIN cache]
  /\ UNCHANGED <<job, env, client, cache, visited, queue, failed, documents, call, startup,
                 event, before>>

CrawlStep ==
  \E c \in Slots :
    \/ FetchSitemap(c)
    \/ LoopExit(c)
    \/ LoopTake(c)
    \/ HasDone(c)
    \/ ScrapeDone(c)
    \/ SetDone(c)
    \/ DelayDone(c)
    \/ GetDone(c)

RebuildStep == \E c \in Slots : RebuildAfterCrawl(c) \/ RebuildList(c) \/ RebuildGet(c)

Next ==
  \/ Crawl
  \/ HandleCrawlSite
  \/ HandleRebuildIndex
  \/ HandleSearchDocs
  \/ CrawlStep
  \/ RebuildStep
  \/ StartupList
  \/ StartupGet

Spec == Init /\ [][Next]_vars

\* the same server under a client that does not wait for a call's response
InitOverlap == InitWith("concurrent")

SpecOverlap == InitOverlap /\ [][Next]_vars

\* one tool call, in which every pending fetch, store call and delay of the
\* crawl is answered in the end
InitOnce == InitWith("once")

SpecFair == InitOnce /\ [][Next]_vars /\ WF_vars(CrawlStep)

\* a site that serves its pages but no sitemap: the guide is found by links only
SitemapDown == [Healthy EXCEPT !.down = {sitemapUrl}]

\* one tool call on a server whose site has no sitemap
InitDeep ==
  /\ env = SitemapDown
  /\ client = "once"
  /\ cache \in InitialStores
  /\ visited = {}
  /\ queue = <<>>
  /\ failed = {}
  /\ documents = {}
  /\ call = [c \in Slots |-> IdleCall]
  /\ startup = [pc |-> "list", todo |-> <<>>]
  /\ started = 0
  /\ event = NoEvent
  /\ before = {}
  /\ observed = NoSearch
  /\ job = NoJob

SpecDeep == InitDeep /\ [][Next]_vars

\* ------------------------------------------------- parsers and the index
\* The parsers, the search index and the request dispatcher are run on inputs
\* of their own, beside a server that makes no call.
serverVars ==
  <<env, client, cache, visited, queue, failed, documents, call, startup, started,
    event, before, observed>>

ServerParked ==
  /\ env = Healthy
  /\ client = "none"
  /\ cache = EmptyStore
  /\ visited = {}
  /\ queue = <<>>
  /\ failed = {}
  /\ documents = {}
  /\ call = [c \in Slots |-> IdleCall]
  /\ startup = [pc |-> "done", todo |-> <<>>]
  /\ started = 0
  /\ event = NoEvent
  /\ before = {}
  /\ observed = NoSearch

\* all sequences over S of length 0..n
SeqsUpTo(S, n) == UNION {[1..k -> S] : k \in 0..n}

\* ------------------------------------------------------- section outline
\* headings of a page: h1..h<MaxLevel>, at most MaxHeadings of them
MaxLevel == 3
MaxHeadings == 4

\* the text of a heading element: blank, or a title
HeadingTexts == {" ", "Title"}

Trim(text) == IF text = " " THEN "" ELSE text

Headings == [level : 1..MaxLevel, text : HeadingTexts]

\* extractSections: the headings with a title, in document order; a section is
\* known by its place in this list
FlatSections(headings) ==
  LET Titled(h) == Trim(h.text) # ""
  IN SelectSeq(headings, Titled)

SectionsJob(headings) ==
  [kind |-> "sections", pc |-> "extract", headings |-> headings, flat |-> <<>>,
   next |-> 1, stack |-> <<>>, rootSections |-> <<>>, subsections |-> <<>>]

\* the pop test with > for >=
PopTestStrict(topLevel, level) == topLevel > level

\* stack[stack.length - 1].level >= section.level
PopTest(topLevel, level) == topLevel >= level

RECURSIVE PopStack(_, _, _)
\* while (stack.length > 0 && top.level >= section.level) stack.pop()
PopStack(stack, flat, level) ==
  IF Len(stack) > 0 /\ PopTest(flat[stack[Len(stack)]].level, level)
    THEN PopStack(SubSeq(stack, 1, Len(stack) - 1), flat, level)
    ELSE stack

\* a hierarchy that hangs every section under the outermost open one
ParentIsOutermost(stack) == stack[1]

\* const parent = stack[stack.length - 1]
ParentOf(stack) == stack[Len(stack)]

\* extractSections up to the call of buildSectionHierarchy
ExtractSections ==
  /\ job.kind = "sections"
  /\ job.pc = "extract"
  /\ job' = [job EXCEPT !.pc = "build",
                        !.flat = FlatSections(job.headings),
                        !.subsections = [i \in 1..Len(FlatSections(job.headings)) |-> <<>>]]
  /\ UNCHANGED serverVars

\* one iteration of the for loop of buildSectionHierarchy
BuildSectionStep ==
  /\ job.kind = "sections"
  /\ job.pc = "build"
  /\ job.next <= Len(job.flat)
  /\ LET stack == PopStack(job.stack, job.flat, job.flat[job.next].level)
     IN job' = [job EXCEPT
                  !.rootSections = IF stack = <<>> THEN Append(@, job.next) ELSE @,
                  !.subsections = IF stack = <<>> THEN @
                                  ELSE [@ EXCEPT ![ParentOf(stack)] = Append(@, job.next)],
                  !.stack = Append(stack, job.next),
                  !.next = @ + 1]
  /\ UNCHANGED serverVars

\* return rootSections
BuildSectionReturn ==
  /\ job.kind = "sections"
  /\ job.pc = "build"
  /\ job.next > Len(job.flat)
  /\ job' = [job EXCEPT !.pc = "returned", !.stack = <<>>]
  /\ UNCHANGED serverVars

InitSections ==
  /\ ServerParked
  /\ job \in {SectionsJob(h) : h \in SeqsUpTo(Headings, MaxHeadings)}

NextSections == ExtractSections \/ BuildSectionStep \/ BuildSectionReturn

SpecSections == InitSections /\ [][NextSections]_vars

\* -------------------------------------------------------- GraphQL parser
\* A code text is the sequence of its tokens (words and punctuation), with NL
\* for a line break.  Tokens are written with one blank between them, none
\* before a colon.
NL == "<newline>"

Punctuation == {"{", "}", ":", "#", "(", ")", NL, ""}

IsWord(token) == token \notin Punctuation

\* the token at a position, "" past the end
Tok(code, p) == IF p >= 1 /\ p <= Len(code) THEN code[p] ELSE ""

RECURSIVE SkipNL(_, _)
\* \s* from a position: the line breaks are passed
SkipNL(code, p) == IF Tok(code, p) = NL THEN SkipNL(code, p + 1) ELSE p

RECURSIVE RunEnd(_, _, _)
\* the first position from p on whose token is in stops (or past the end)
RunEnd(code, p, stops) ==
  IF p > Len(code) \/ code[p] \in stops THEN p ELSE RunEnd(code, p + 1, stops)

\* ^ under the m flag: the start of the text and the position after a line break
LineStarts(code) == {p \in 1..Len(code) : p = 1 \/ code[p - 1] = NL}

RECURSIVE RawLength(_)
\* code.length
RawLength(code) ==
  IF code = <<>> THEN 0
  ELSE LET init == SubSeq(code, 1, Len(code) - 1)
           last == code[Len(code)]
           gap == IF init = <<>> \/ last \in {NL, ":"} \/ init[Len(init)] = NL
                    THEN 0 ELSE 1
       IN RawLength(init) + gap + (IF last = NL THEN 1 ELSE Len(last))

\* /^\s*<keyword>\s+(\w+)\s*{/m at a line start: the position of the name, 0 if
\* the pattern does not match there
NamedBlockAt(code, p, keywords) ==
  LET k == SkipNL(code, p)
      n == SkipNL(code, k + 1)
      b == SkipNL(code, n + 1)
  IN IF Tok(code, k) \in keywords /\ IsWord(Tok(code, n)) /\ Tok(code, b) = "{"
       THEN n ELSE 0

\* /^\s*(query|mutation)\s+(\w+)?\s*(\([^)]*\))?\s*{/m at a line start
OperationAt(code, p) ==
  LET k == SkipNL(code, p)
      n == SkipNL(code, k + 1)
      named == IsWord(Tok(code, n))
      a == IF named THEN SkipNL(code, n + 1) ELSE n
      b == IF Tok(code, a) = "(" /\ RunEnd(code, a, {")"}) <= Len(code)
             THEN SkipNL(code, RunEnd(code, a, {")"}) + 1) ELSE a
  IN IF Tok(code, k) \in {"query", "mutation"} /\ Tok(code, b) = "{"
       THEN [ok |-> TRUE, keyword |-> Tok(code, k),
             name |-> IF named THEN Tok(code, n) ELSE Tok(code, k) \o "Operation"]
       ELSE [ok |-> FALSE, keyword |-> "", name |-> ""]

\* the name the leftmost match of a named-block pattern captures, "" if none
NamedBlock(code, keywords) ==
  LET hits == {p \in LineStarts(code) : NamedBlockAt(code, p, keywords) # 0}
  IN IF hits = {} THEN ""
     ELSE code[NamedBlockAt(code, CHOOSE p \in hits : \A q \in hits : p <= q, keywords)]

Operation(code) ==
  LET hits == {p \in LineStarts(code) : OperationAt(code, p).ok}
  IN IF hits = {} THEN [ok |-> FALSE, keyword |-> "", name |-> ""]
     ELSE OperationAt(code, CHOOSE p \in hits : \A q \in hits : p <= q)

\* /^\s*type\s+Query\s*{/m and /^\s*type\s+Mutation\s*{/m
RootTypeTest(code, root) ==
  \E p \in LineStarts(code) :
    NamedBlockAt(code, p, {"type"}) # 0 /\ code[NamedBlockAt(code, p, {"type"})] = root

\* /^\s*(\w+)\s*:\s*([^#\n]+?)(?:\s*#\s*(.*))?$/gm at a line start
FieldAt(code, p) ==
  LET w == SkipNL(code, p)
      c == SkipNL(code, w + 1)
      t == SkipNL(code, c + 1)
      typeEnd == RunEnd(code, t, {"#", NL})
      d == SkipNL(code, typeEnd + 1)
      commented == Tok(code, typeEnd) = "#"
      end == IF commented THEN RunEnd(code, d, {NL}) ELSE typeEnd
  IN [ok |-> IsWord(Tok(code, w)) /\ Tok(code, c) = ":" /\ typeEnd > t,
      name |-> Tok(code, w),
      type |-> SubSeq(code, t, typeEnd - 1),
      description |-> IF commented THEN SubSeq(code, d, end - 1) ELSE <<>>,
      end |-> end]

FieldKeywords == {"type", "input", "enum", "interface", "query", "mutation"}

RECURSIVE FieldsFrom(_, _)
\* while ((match = fieldPattern.exec(code)) !== null)
FieldsFrom(code, from) ==
  LET hits == {p \in LineStarts(code) : p >= from /\ FieldAt(code, p).ok}
  IN IF hits = {} THEN <<>>
     ELSE LET f == FieldAt(code, CHOOSE p \in hits : \A q \in hits : p <= q)
              field == [name |-> f.name, type |-> f.type, description |-> f.description]
          IN (IF f.name \in FieldKeywords THEN <<>> ELSE <<field>>)
             \o FieldsFrom(code, f.end)

\* extractFields(code); <<>> stands for undefined (an empty list is never returned)
ExtractFields(code) == FieldsFrom(code, 1)

NoSchema == [ok |-> FALSE, raw |-> <<>>, type |-> "", name |-> "", fields |-> <<>>]

\* parseGraphQLSchema(code); ok is FALSE for null
ParseGraphQLSchema(code) ==
  LET kind ==
        IF RootTypeTest(code, "Query") THEN <<"query", "Query">>
        ELSE IF RootTypeTest(code, "Mutation") THEN <<"mutation", "Mutation">>
        ELSE IF NamedBlock(code, {"input"}) # ""
          THEN <<"input", NamedBlock(code, {"input"})>>
        ELSE IF NamedBlock(code, {"enum"}) # ""
          THEN <<"enum", NamedBlock(code, {"enum"})>>
        ELSE IF NamedBlock(code, {"type", "interface"}) # ""
          THEN <<"type", NamedBlock(code, {"type", "interface"})>>
        ELSE IF Operation(code).ok
          THEN <<Operation(code).keyword, Operation(code).name>>
        ELSE <<"", "">>
  IN IF kind[1] = "" THEN NoSchema
     ELSE [ok |-> TRUE, raw |-> code, type |-> kind[1], name |-> kind[2],
           fields |-> ExtractFields(code)]

\* candidate blocks of a page: at most MaxBlocks elements
MaxBlocks == 2

\* if (code.length < 20) continue
MinCodeLength == 20

ProductTokens ==
  <<"type", "Product", "{", "id", ":", "ID", "name", ":", "String", "}">>

RECURSIVE Layout(_, _)
\* the tokens with a line break after the i-th token for every i in breaks
Layout(tokens, breaks) ==
  IF tokens = <<>> THEN <<>>
  ELSE Layout(SubSeq(tokens, 1, Len(tokens) - 1), breaks)
       \o (IF (Len(tokens) - 1) \in breaks THEN <<NL>> ELSE <<>>)
       \o <<tokens[Len(tokens)]>>

\* type Product { id: ID name: String } in every arrangement of its line breaks
ProductLayouts ==
  {Layout(ProductTokens, breaks) : breaks \in SUBSET (1..(Len(ProductTokens) - 1))}

ProductOneLine == Layout(ProductTokens, {})

ProductLines == Layout(ProductTokens, {3, 6, 9})

ProductShort == <<"type", "Product", "{", NL, "id", ":", "ID", NL, "}">>

ProductInput == <<"input", "ProductInput", "{", NL, "id", ":", "ID", NL, "}">>

ColorEnum == <<"enum", "Color", "{", "RED", "}">>

ListProducts ==
  <<"query", "(", "first", ":", "Int", ")", "{", NL, "products", "{", "id", "}", NL, "}">>

InstallNote == <<"npm", "install", "graphql-request", "--save">>

NodeInterface == <<"interface", "Node", "{", NL, "id", ":", "ID", NL, "}">>

Codes ==
  {ProductOneLine, ProductLines, ProductShort, ProductInput, ColorEnum, ListProducts,
   InstallNote, NodeInterface}

\* a script holding one quoted schema text, a <pre><code> block, a bare <code>
Elements == [tag : {"script", "pre code", "code"}, code : Codes]

\* the candidate blocks in the order extractSchemas parses them: the scripts,
\* then $('pre code'), then $('code'), which selects the <pre><code> blocks again
Candidates(elements) ==
  LET IsScript(el) == el.tag = "script"
      IsPreCode(el) == el.tag = "pre code"
      IsCode(el) == el.tag # "script"
  IN SelectSeq(elements, IsScript) \o SelectSeq(elements, IsPreCode)
     \o SelectSeq(elements, IsCode)

SchemasJob(elements) ==
  [kind |-> "schemas", pc |-> "parse", elements |-> elements,
   todo |-> Candidates(elements), schemas |-> <<>>, result |-> <<>>]

\* `${schema.type}:${schema.name}:${schema.raw.length}`
SchemaKey(schema) == <<schema.type, schema.name, RawLength(schema.raw)>>

RECURSIVE Deduplicate(_, _)
\* the loop of deduplicateSchemas over a Map in insertion order
Deduplicate(schemas, seen) ==
  IF schemas = <<>> THEN seen
  ELSE LET schema == Head(schemas)
           at == {i \in 1..Len(seen) : SchemaKey(seen[i]) = SchemaKey(schema)}
           i == CHOOSE i \in at : TRUE
       IN Deduplicate(Tail(schemas),
            IF at = {} THEN Append(seen, schema)
            ELSE IF RawLength(schema.raw) > RawLength(seen[i].raw)
              THEN [seen EXCEPT ![i] = schema]
            ELSE seen)

DeduplicateSchemas(schemas) == Deduplicate(schemas, <<>>)

\* extractSchemas: the next candidate block is parsed
ParseCandidate ==
  /\ job.kind = "schemas"
  /\ job.pc = "parse"
  /\ job.todo # <<>>
  /\ LET el == Head(job.todo)
         skipped == el.tag # "script" /\ RawLength(el.code) < MinCodeLength
         schema == ParseGraphQLSchema(el.code)
     IN job' = [job EXCEPT !.todo = Tail(@),
                           !.schemas = IF ~skipped /\ schema.ok THEN Append(@, schema)
                                       ELSE @]
  /\ UNCHANGED serverVars

\* extractSchemas: return this.deduplicateSchemas(schemas)
ExtractSchemasReturn ==
  /\ job.kind = "schemas"
  /\ job.pc = "parse"
  /\ job.todo = <<>>
  /\ job' = [job EXCEPT !.pc = "returned", !.result = DeduplicateSchemas(job.schemas)]
  /\ UNCHANGED serverVars

InitSchemas ==
  /\ ServerParked
  /\ job \in {SchemasJob(els) : els \in SeqsUpTo(Elements, MaxBlocks)}
            \cup {SchemasJob(<<[tag |-> "pre code", code |-> code]>>) :
                    code \in ProductLayouts}

NextSchemas == ParseCandidate \/ ExtractSchemasReturn

SpecSchemas == InitSchemas /\ [][NextSchemas]_vars

\* ---------------------------------------------------------------- strings
\* In the search index a string is the sequence of its characters.
\* String.prototype.toLowerCase, over the capitals that occur in the texts
ToLowerCase(str) ==
  LET Lower(c) == CASE c = "A" -> "a" [] c = "C" -> "c" [] c = "G" -> "g"
                    [] c = "I" -> "i" [] c = "M" -> "m" [] c = "O" -> "o"
                    [] c = "P" -> "p" [] c = "S" -> "s" [] OTHER -> c
  IN [i \in 1..Len(str) |-> Lower(str[i])]

\* String.prototype.includes
Includes(str, part) ==
  \E i \in 0..(Len(str) - Len(part)) : SubSeq(str, i + 1, i + Len(part)) = part

RECURSIVE SplitOn(_, _)
\* String.prototype.split on a set of separator characters: the pieces between
\* separators, empty ones included
SplitOn(str, separators) ==
  LET at == {i \in 1..Len(str) : str[i] \in separators}
      last == IF at = {} THEN 0 ELSE CHOOSE i \in at : \A j \in at : j <= i
  IN IF at = {} THEN <<str>>
     ELSE Append(SplitOn(SubSeq(str, 1, last - 1), separators),
                 SubSeq(str, last + 1, Len(str)))

\* split(/\s+/) followed by a filter on the length of the pieces: runs of white
\* space give empty pieces, which every such filter drops
WordsLongerThan(str, n) ==
  LET Long(word) == Len(word) > n
  IN SelectSeq(SplitOn(str, {" "}), Long)

RECURSIVE Join(_)
\* the pieces with one blank between them
Join(words) ==
  IF words = <<>> THEN <<>>
  ELSE IF Len(words) = 1 THEN words[1]
  ELSE words[1] \o <<" ">> \o Join(Tail(words))

\* ------------------------------------------------------------ new RegExp
\* The pattern language of the query tokens modelled: a literal character, and
\* + after an atom for one or more of it.  A + with no atom before it does not
\* compile: new RegExp throws SyntaxError (nothing to repeat).
RegExpCompiles(word) ==
  \A i \in 1..Len(word) : word[i] = "+" => (i > 1 /\ word[i - 1] # "+")

\* the atoms of a pattern that compiles: the literal and whether + follows it
RegExpAtoms(word) ==
  LET Literal(i) == word[i] # "+"
      places == SelectSeq([i \in 1..Len(word) |-> i], Literal)
  IN [k \in 1..Len(places) |->
        [char |-> word[places[k]],
         plus |-> places[k] < Len(word) /\ word[places[k] + 1] = "+"]]

RECURSIVE MatchEnd(_, _, _)
\* the position after the match of the atoms at position p of the text, as the
\* backtracking matcher finds it (greedy +), 0 when they do not match there
MatchEnd(atoms, text, p) ==
  IF atoms = <<>> THEN p
  ELSE IF p > Len(text) \/ text[p] # Head(atoms).char THEN 0
  ELSE IF ~Head(atoms).plus THEN MatchEnd(Tail(atoms), text, p + 1)
  ELSE LET ends == {q \in (p + 1)..(Len(text) + 1) :
                      \A k \in p..(q - 1) : text[k] = Head(atoms).char}
           good == {q \in ends : MatchEnd(Tail(atoms), text, q) # 0}
       IN IF good = {} THEN 0
          ELSE MatchEnd(Tail(atoms), text, CHOOSE q \in good : \A r \in good : r <= q)

RECURSIVE CountMatches(_, _, _)
\* (text.match(new RegExp(word, 'g')) || []).length, scanning from position p
CountMatches(atoms, text, p) ==
  LET starts == {q \in p..Len(text) : MatchEnd(atoms, text, q) # 0}
      first == CHOOSE q \in starts : \A r \in starts : q <= r
  IN IF atoms = <<>> \/ starts = {} THEN 0
     ELSE 1 + CountMatches(atoms, text, MatchEnd(atoms, text, first))

\* ------------------------------------------------------------ SearchIndex
\* the characters of the texts that occur in the pages and the queries
Chars(s) ==
  CASE s = "https://ikas.dev" -> <<"h", "t", "t", "p", "s", ":", "/", "/", "i", "k", "a", "s", ".", "d", "e", "v">>
    [] s = "/docs" -> <<"/", "d", "o", "c", "s">>
    [] s = "/intro" -> <<"/", "i", "n", "t", "r", "o">>
    [] s = "/api" -> <<"/", "a", "p", "i">>
    [] s = "/admin-api" -> <<"/", "a", "d", "m", "i", "n", "-", "a", "p", "i">>
    [] s = "/products" -> <<"/", "p", "r", "o", "d", "u", "c", "t", "s">>
    [] s = "/orders" -> <<"/", "o", "r", "d", "e", "r", "s">>
    [] s = "/guide" -> <<"/", "g", "u", "i", "d", "e">>
    [] s = "/playground" -> <<"/", "p", "l", "a", "y", "g", "r", "o", "u", "n", "d">>
    [] s = "Product Mutations" -> <<"P", "r", "o", "d", "u", "c", "t", " ", "M", "u", "t", "a", "t", "i", "o", "n", "s">>
    [] s = "saveProduct product" -> <<"s", "a", "v", "e", "P", "r", "o", "d", "u", "c", "t", " ", "p", "r", "o", "d", "u", "c", "t">>
    [] s = "Product" -> <<"P", "r", "o", "d", "u", "c", "t">>
    [] s = "intro" -> <<"i", "n", "t", "r", "o">>
    [] s = "Shipping Guide" -> <<"S", "h", "i", "p", "p", "i", "n", "g", " ", "G", "u", "i", "d", "e">>
    [] s = "Orders" -> <<"O", "r", "d", "e", "r", "s">>
    [] s = "orders" -> <<"o", "r", "d", "e", "r", "s">>
    [] s = "Playground" -> <<"P", "l", "a", "y", "g", "r", "o", "u", "n", "d">>
    [] s = "product" -> <<"p", "r", "o", "d", "u", "c", "t">>
    [] s = "a+b" -> <<"a", "+", "b">>
    [] s = "c++" -> <<"c", "+", "+">>
    [] s = "pr" -> <<"p", "r">>
    [] s = "product guide" -> <<"p", "r", "o", "d", "u", "c", "t", " ", "g", "u", "i", "d", "e">>
    [] s = "shipping guide" -> <<"s", "h", "i", "p", "p", "i", "n", "g", " ", "g", "u", "i", "d", "e">>
    [] s = "guide" -> <<"g", "u", "i", "d", "e">>
    [] s = "ikas" -> <<"i", "k", "a", "s">>
    [] s = "/graphql" -> <<"/", "g", "r", "a", "p", "h", "q", "l">>
    [] s = "/guides" -> <<"/", "g", "u", "i", "d", "e", "s">>
    [] s = "product," -> <<"p", "r", "o", "d", "u", "c", "t", ",">>

RECURSIVE UrlText(_)
\* the url as the string the index sees
UrlText(url) == IF url = <<>> THEN <<>> ELSE Chars(Head(url)) \o UrlText(Tail(url))

\* extractKeywords: lower case, every character that is neither [a-z0-9] nor
\* white space replaced by a blank, the words of more than three characters that
\* are no stop words, each once
ExtractKeywords(text) ==
  LET lower == ToLowerCase(text)
      symbols == {"+", ":", "/", ".", "-"}
      plain == [i \in 1..Len(lower) |-> IF lower[i] \in symbols THEN " " ELSE lower[i]]
      stopWords == {Chars("ikas")}
      Kept(word) == word \notin stopWords
  IN Dedup(SelectSeq(WordsLongerThan(plain, 3), Kept))

\* the document type createSearchDocument derives from the url
TypeOf(text) ==
  IF Includes(text, Chars("/api") \o <<"/">>) THEN "api"
  ELSE IF Includes(text, Chars("/graphql")) THEN "graphql"
  ELSE IF Includes(text, Chars("/playground")) THEN "playground"
  ELSE IF Includes(text, Chars("/guides") \o <<"/">>) THEN "guide"
  ELSE "general"

\* createSearchDocument; an undefined category is the empty string here: both
\* are skipped by getCategories and both differ from every category asked for
CreateSearchDocument(page) ==
  LET text == UrlText(page.url)
      urlParts == SplitOn(text, {"/"})
  IN [id |-> page.url,
      title |-> page.title,
      content |-> page.content,
      category |-> IF Len(urlParts) > 4 THEN urlParts[5] ELSE <<>>,
      type |-> TypeOf(text),
      keywords |-> ExtractKeywords(page.title \o <<" ">> \o text),
      sections |-> page.sections,
      graphqlTypes |-> page.schemas]

\* a store of documents that keeps one entry per addDocument call
MapSetAppends(docs, doc) == Append(docs, doc)

\* Map.prototype.set on the documents in insertion order: a known id keeps its
\* place and takes the new document
MapSet(docs, doc) ==
  IF \E i \in 1..Len(docs) : docs[i].id = doc.id
  THEN [i \in 1..Len(docs) |-> IF docs[i].id = doc.id THEN doc ELSE docs[i]]
  ELSE Append(docs, doc)

Range(seq) == {seq[i] : i \in 1..Len(seq)}

\* Array.prototype.sort by descending key: a stable sort
SortDescending(seq, keys) ==
  LET Rank(i) == 1 + Cardinality({j \in 1..Len(seq) :
                       keys[j] > keys[i] \/ (keys[j] = keys[i] /\ j < i)})
  IN [r \in 1..Len(seq) |-> seq[CHOOSE i \in 1..Len(seq) : Rank(i) = r]]

\* getCategories
GetCategories(docs) ==
  LET HasCategory(doc) == doc.category # <<>>
      categorised == SelectSeq(docs, HasCategory)
      names == Dedup([i \in 1..Len(categorised) |-> categorised[i].category])
      entries == [k \in 1..Len(names) |->
                    [name |-> names[k],
                     count |-> Cardinality({i \in 1..Len(categorised) :
                                              categorised[i].category = names[k]})]]
  IN SortDescending(entries, [k \in 1..Len(entries) |-> entries[k].count])

\* getStats
GetStats(index) ==
  [totalDocuments |-> Len(index.documents),
   totalKeywords |-> Cardinality({entry[1] : entry \in index.keywords}),
   totalGraphQLTypes |-> Cardinality({entry[1] : entry \in index.graphqlTypes}),
   categories |-> GetCategories(index.documents)]

\* the most occurrences of a word in the body of a page
MaxOccurrences == 6

\* search returns this many results unless told otherwise
DefaultLimit == 10

\* scraped pages: the url, the title, the body text, the titles of the extracted
\* sections and the names of the extracted schemas
Page ==
  [products |->
     [url |-> Seed2, title |-> Chars("Product Mutations"),
      content |-> Chars("saveProduct product"),
      sections |-> <<Chars("Product")>>, schemas |-> <<Chars("Product")>>],
   exactTitle |->
     [url |-> Seed1, title |-> Chars("Product"), content |-> Chars("intro"),
      sections |-> <<>>, schemas |-> <<>>],
   orders |->
     [url |-> Seed3, title |-> Chars("Orders"), content |-> Chars("orders"),
      sections |-> <<>>, schemas |-> <<>>],
   playground |->
     [url |-> Seed5, title |-> Chars("Playground"), content |-> Chars("intro"),
      sections |-> <<>>, schemas |-> <<>>]]

\* a page whose body is a word n times
BodyPage(word, n) ==
  [url |-> GuideUrl, title |-> Chars("Shipping Guide"),
   content |-> Join([i \in 1..n |-> Chars(word)]),
   sections |-> <<>>, schemas |-> <<>>]

\* the pages of a store: one per url
StorePages ==
  {Page.exactTitle, Page.products, Page.orders, Page.playground, BodyPage("product", 1)}

\* the pages searched: the body page in every version
SearchPages ==
  {Page.exactTitle, Page.products}
    \cup {BodyPage(word, n) : word \in {"product", "a+b"}, n \in 0..MaxOccurrences}

Queries ==
  {Chars(q) : q \in {"product", "Product", "product guide", "shipping guide",
                     "a+b", "c++", "pr", "orders", "product,"}} \cup {<<>>}

\* the options of a search: the defaults, or one or two of them given
SearchOptions ==
  {[o \in {} |-> 0]}
    \cup {[limit |-> n] : n \in {0 - 1, 0, 1, 2}}
    \cup {[category |-> Chars("guide")], [type |-> "api"],
          [limit |-> 1, type |-> "general"]}

\* a fresh SearchIndex over the pages at hand; returned is what the last call
\* returned, cleared what getStats answered before the last clear
IndexJob(pages) ==
  LET fresh == [documents |-> <<>>, keywords |-> {}, graphqlTypes |-> {}]
  IN [kind |-> "index", pages |-> pages, documents |-> <<>>, keywords |-> {},
      graphqlTypes |-> {}, returned |-> [kind |-> "void"],
      cleared |-> [taken |-> FALSE, ids |-> {}, stats |-> GetStats(fresh)]]

\* addDocument
AddDocument ==
  /\ job.kind = "index"
  /\ \E page \in job.pages :
       \E doc \in {CreateSearchDocument(page)} :
          job' = [job EXCEPT
                    !.documents = MapSet(@, doc),
                    !.keywords = @ \cup {<<k, doc.id>> : k \in Range(doc.keywords)},
                    !.graphqlTypes = @ \cup {<<ToLowerCase(t), doc.id>> : t \in Range(doc.graphqlTypes)},
                    !.returned = [kind |-> "void"]]
  /\ UNCHANGED serverVars

\* clear; the history keeps what getStats answered just before
Clear ==
  /\ job.kind = "index"
  /\ job' = [job EXCEPT
               !.documents = <<>>, !.keywords = {}, !.graphqlTypes = {},
               !.returned = [kind |-> "void"],
               !.cleared = [taken |-> TRUE,
                            ids |-> {job.documents[i].id : i \in 1..Len(job.documents)},
                            stats |-> GetStats(job)]]
  /\ UNCHANGED serverVars

InitIndex == ServerParked /\ job = IndexJob(StorePages)

NextIndex == AddDocument \/ Clear

SpecIndex == InitIndex /\ [][NextIndex]_vars

\* findByGraphQLType: a result for every id filed under the lower-cased name that
\* is still a document
FindByGraphQLType(index, typeName) ==
  LET documentIds == {entry[2] : entry \in {e \in index.graphqlTypes : e[1] = ToLowerCase(typeName)}}
  IN {[url |-> index.documents[i].id, title |-> index.documents[i].title, score |-> 100] :
        i \in {j \in 1..Len(index.documents) : index.documents[j].id \in documentIds}}

\* the products page scraped again after the site changed it: another title, no
\* schema left
ProductsRewritten == [Page.products EXCEPT !.title = Chars("Orders"), !.schemas = <<>>]

\* an index fed with both versions of the products page
InitReindex ==
  ServerParked /\ job = IndexJob({Page.products, ProductsRewritten, Page.exactTitle})

SpecReindex == InitReindex /\ [][NextIndex]_vars

\* --------------------------------------------------------- SearchIndex.search
\* a title compared as it was written
TitleAsWritten(doc) == doc.title

\* titleLower
TitleLower(doc) == ToLowerCase(doc.title)

\* the score search gives a document that passed the filters, for a query all
\* of whose words compile
Score(doc, queryLower, queryWords) ==
  LET words == 1..Len(queryWords)
      titleLower == TitleLower(doc)
      contentLower == ToLowerCase(doc.content)
      Occurrences(word) == CountMatches(RegExpAtoms(word), contentLower, 1)
      Capped(n) == IF n * 2 < 10 THEN n * 2 ELSE 10
      content == [i \in words |-> Capped(Occurrences(queryWords[i]))]
      Sum[i \in 0..Len(queryWords)] == IF i = 0 THEN 0 ELSE Sum[i - 1] + content[i]
  IN 20 * Cardinality({i \in words : Includes(titleLower, queryWords[i])})
     + (IF titleLower = queryLower THEN 50 ELSE 0)
     + 10 * Cardinality({i \in words :
               \E k \in Range(doc.keywords) : Includes(k, queryWords[i])})
     + 15 * Cardinality({i \in words :
               \E t \in Range(doc.graphqlTypes) : Includes(ToLowerCase(t), queryWords[i])})
     + Sum[Len(queryWords)]
     + 5 * Cardinality({<<s, i>> \in (1..Len(doc.sections)) \X words :
               Includes(ToLowerCase(doc.sections[s]), queryWords[i])})

\* Array.prototype.slice(0, end)
Slice(seq, end) ==
  LET stop == IF end < 0 THEN (IF Len(seq) + end > 0 THEN Len(seq) + end ELSE 0)
              ELSE IF end > Len(seq) THEN Len(seq) ELSE end
  IN SubSeq(seq, 1, stop)

\* the tokens search scores with: the lower-cased query split at white space,
\* the pieces of more than two characters
QueryWords(queryLower) == WordsLongerThan(queryLower, 2)

\* search: results is the sorted list before the slice.  The result is held in
\* returned until the next call on the index; one search is looked at at a time.
Search ==
  /\ job.kind = "index"
  /\ job.returned.kind = "void"
  /\ \E query \in Queries, options \in SearchOptions :
       LET limit == IF "limit" \in DOMAIN options THEN options.limit ELSE DefaultLimit
           queryLower == ToLowerCase(query)
           Passes(doc) ==
             /\ "category" \in DOMAIN options => doc.category = options.category
             /\ "type" \in DOMAIN options => doc.type = options.type
           Positive(result) == result.score > 0
       IN \E queryWords \in {QueryWords(queryLower)},
             docs \in {SelectSeq(job.documents, Passes)} :
            LET throws == docs # <<>> /\ \E i \in 1..Len(queryWords) :
                                           ~RegExpCompiles(queryWords[i])
                scored == [i \in 1..Len(docs) |->
                             [url |-> docs[i].id, title |-> docs[i].title,
                              score |-> Score(docs[i], queryLower, queryWords)]]
            IN \E found \in {IF throws THEN <<>> ELSE SelectSeq(scored, Positive)} :
                 \E results \in {SubSeq(SortDescending(found, [i \in 1..Len(found) |-> found[i].score]),
                                        1, Len(found))} :
                   job' = [job EXCEPT !.returned =
                             IF throws
                             THEN [kind |-> "throw", query |-> query, options |-> options,
                                   error |-> "SyntaxError"]
                             ELSE [kind |-> "results", query |-> query, options |-> options,
                                   results |-> results, value |-> Slice(results, limit)]]
  /\ UNCHANGED serverVars

InitSearch == ServerParked /\ job = IndexJob(SearchPages)

NextSearch == AddDocument \/ Search

SpecSearch == InitSearch /\ [][NextSearch]_vars

\* ------------------------------------------------ IkasScraper.scrapePage
\* A text is held by its name and its length.
\* the length below which the main text of a page counts as empty
MinMainText == 100

\* the length below which the content of a playground page is replaced
MinPlaygroundContent == 100

\* the length of the PLAYGROUND_INFO text
PlaygroundInfoLength == 1194

\* the longest content extracted from a page
MaxContent == 150

PLAYGROUND_INFO == [text |-> "PLAYGROUND_INFO", length |-> PlaygroundInfoLength]

\* createHash('sha256').update(content).digest('hex'): one digest per text
Sha256(content) == <<"sha256", content>>

\* url.includes('/playground')
IsPlayground(url) == \E i \in 1..Len(url) : url[i] = "/playground"

\* a document the site serves: whether it has a React root, the length of the
\* text of its main element, and what the content extractor extracts from it
Html(root, main, length) ==
  [reactRoot |-> root, main |-> main,
   extracted |-> [title |-> "ikas docs", description |-> "",
                  content |-> [text |-> "extracted", length |-> length],
                  sections |-> <<>>, apiEndpoints |-> <<>>]]

\* the curated content that replaces what was extracted
PlaygroundFallback(extracted) ==
  [extracted EXCEPT
     !.title = "ikas GraphQL Playground",
     !.content = PLAYGROUND_INFO,
     !.description = "Interactive GraphQL API explorer for ikas",
     !.sections = <<[id |-> "what-is-playground", level |-> 2],
                    [id |-> "accessing-schema", level |-> 2],
                    [id |-> "graphql-endpoint", level |-> 2]>>,
     !.apiEndpoints = <<[method |-> "POST",
                         url |-> "https://api.myikas.com/api/v1/admin/graphql"]>>]

\* a page built from what was extracted, whatever its length
ExtractContentAsIs(html, url) ==
  [url |-> url, title |-> html.extracted.title, content |-> html.extracted.content,
   html |-> html, hash |-> Sha256(html.extracted.content),
   extractedContent |-> html.extracted]

\* extractContent; the timestamp of the page is left out
ExtractContent(html, url) ==
  LET extracted == html.extracted
      extractedContent ==
        IF IsPlayground(url) /\ extracted.content.length < MinPlaygroundContent
        THEN PlaygroundFallback(extracted) ELSE extracted
  IN [url |-> url, title |-> extractedContent.title,
      content |-> extractedContent.content, html |-> html,
      hash |-> Sha256(extractedContent.content),
      extractedContent |-> extractedContent]

\* scrapeWithPuppeteer: the rendered document, or the error of the browser
ScrapeWithPuppeteer(site, url) ==
  IF site.puppeteer THEN [kind |-> "page", page |-> ExtractContent(site.rendered, url)]
  ELSE [kind |-> "throw", error |-> "TimeoutError"]

\* scrapePage is called for a url of a site: whether axios and the browser get
\* an answer, and the documents they get
InitScrape ==
  /\ ServerParked
  /\ \E url \in {Seed5, Seed5 \o <<"/docs">>, Seed1},
        axios \in BOOLEAN, puppeteer \in BOOLEAN,
        static \in {Html(FALSE, MinMainText, MaxContent), Html(TRUE, MinMainText, MaxContent),
                    Html(FALSE, MinMainText - 1, MinMainText - 1)},
        length \in {0, MinPlaygroundContent - 1, MinPlaygroundContent, MaxContent} :
       job = [kind |-> "scrape", pc |-> "call", url |-> url,
              site |-> [axios |-> axios, puppeteer |-> puppeteer, static |-> static,
                        rendered |-> Html(TRUE, length, length)],
              fetches |-> <<>>, outcome |-> [kind |-> "none"]]

\* scrapePage; fetches is the list of the fetches it made
ScrapePage ==
  /\ job.kind = "scrape"
  /\ job.pc = "call"
  /\ LET site == job.site
         hasReactRoot == site.static.reactRoot
         hasEmptyContent == site.static.main < MinMainText
     IN job' = [job EXCEPT
                  !.pc = "returned",
                  !.fetches = IF IsPlayground(job.url) THEN <<"puppeteer">>
                              ELSE IF ~site.axios \/ hasReactRoot \/ hasEmptyContent
                                   THEN <<"axios", "puppeteer">>
                                   ELSE <<"axios">>,
                  !.outcome = IF IsPlayground(job.url) THEN ScrapeWithPuppeteer(site, job.url)
                              ELSE IF ~site.axios \/ hasReactRoot \/ hasEmptyContent
                                   THEN ScrapeWithPuppeteer(site, job.url)
                                   ELSE [kind |-> "page",
                                         page |-> ExtractContent(site.static, job.url)]]
  /\ UNCHANGED serverVars

SpecScrape == InitScrape /\ [][ScrapePage]_vars

\* ------------------------------------------------ SmartCrawler.extractLinks
\* An href is a sequence of pieces of its text, as a url is.  The first piece
\* tells the form: a scheme with or without a host, //host, a path piece, a
\* fragment, or a bare name.
Fragments == {"#top", "#install"}

\* the hrefs of the anchors of a page
Hrefs ==
  {GuideUrl, GuideUrl \o <<"#install">>, <<"#top">>, <<"/docs", "/intro">>,
   <<"//ikas.dev", "/docs", "/guide">>, <<"deep">>, <<"deep", "#top">>, OffsiteUrl,
   <<"https://ikas.dev", ".evil.com", "/docs", "/guide">>, <<"https://">>,
   <<"https://ikas.dev">>}

\* the absolute url of an href on the page at pageUrl, NoUrl for an href that is
\* skipped
AbsoluteUrl(href, pageUrl) ==
  LET first == href[1]
      WithProtocol(piece) == CASE piece = "//ikas.dev" -> "https://ikas.dev"
      Slashed(piece) == CASE piece = "deep" -> "/deep"
  IN IF first \in {"https://ikas.dev", "https://ikas.com", "https://"} THEN href
     ELSE IF first \in {"//ikas.dev"} THEN <<WithProtocol(first)>> \o Tail(href)
     ELSE IF first \in PathTokens THEN <<pageUrl[1]>> \o href
     ELSE IF first \in Fragments THEN NoUrl
     ELSE SubSeq(pageUrl, 1, Len(pageUrl) - 1) \o <<Slashed(first)>> \o Tail(href)

\* new URL(absoluteUrl) with the hash emptied, as toString writes it: a url
\* without a host does not parse and the href is skipped; an empty path is
\* written as /
CleanUrl(absoluteUrl) ==
  LET NoHash(piece) == piece \notin Fragments
      kept == SelectSeq(absoluteUrl, NoHash)
  IN IF absoluteUrl = NoUrl \/ absoluteUrl[1] = "https://" THEN NoUrl
     ELSE IF \E i \in 1..Len(kept) : kept[i] \in PathTokens THEN kept
     ELSE Append(kept, "/")

\* the cleaned urls of the anchors of a page, in document order
CleanUrls(html, pageUrl) ==
  [i \in 1..Len(html) |-> CleanUrl(AbsoluteUrl(html[i], pageUrl))]

\* a page of up to two anchors is harvested
InitLinks ==
  /\ ServerParked
  /\ \E html \in SeqsUpTo(Hrefs, 2), pageUrl \in {Seed1, GuideUrl} :
       job = [kind |-> "links", pc |-> "call", html |-> html, pageUrl |-> pageUrl,
              links |-> <<>>, pushed |-> <<>>]

\* extractLinks returns, and crawl pushes the links it admits one level deeper
ExtractLinksReturn ==
  /\ job.kind = "links"
  /\ job.pc = "call"
  /\ \E urls \in {CleanUrls(job.html, job.pageUrl)} :
       job' = [job EXCEPT !.pc = "returned", !.links = ExtractLinks(urls),
                          !.pushed = Entries(NewLinks(urls, {job.pageUrl}, DefaultOptions), 1)]
  /\ UNCHANGED serverVars

SpecLinks == InitLinks /\ [][ExtractLinksReturn]_vars

\* ------------------------------------------------ SearchIndex.extractSnippet
\* the default maxLength of a snippet
MaxLength == 200

\* the distance between two windows tried
Stride == 50

\* the longest body a snippet is taken from
MaxBody == 300

RECURSIVE BestStart(_, _, _, _)
\* the loop of extractSnippet from window start i on: best is the best start and
\* its score so far, a later window replaces it only with a greater score
BestStart(contentLower, queryWords, i, best) ==
  IF ~(i < Len(contentLower) - MaxLength) THEN best.start
  ELSE LET window == SubSeq(contentLower, i + 1, i + MaxLength)
           score == Cardinality({k \in 1..Len(queryWords) : Includes(window, queryWords[k])})
       IN BestStart(contentLower, queryWords, i + Stride,
                    IF score > best.score THEN [start |-> i, score |-> score] ELSE best)

\* the snippet cut at bestStart: trimmed, moved to a word boundary at either
\* end and marked with dots where the body goes on
SnippetAt(content, bestStart) ==
  LET Min(a, b) == IF a < b THEN a ELSE b
      cut == SubSeq(content, bestStart + 1, Min(bestStart + MaxLength, Len(content)))
      inked == {i \in 1..Len(cut) : cut[i] # " "}
      trimmed == IF inked = {} THEN <<>>
                 ELSE SubSeq(cut, CHOOSE i \in inked : \A j \in inked : i <= j,
                                  CHOOSE i \in inked : \A j \in inked : j <= i)
      IndexOf(str) == LET at == {i \in 1..Len(str) : str[i] = " "}
                      IN IF at = {} THEN 0 - 1 ELSE (CHOOSE i \in at : \A j \in at : i <= j) - 1
      LastIndexOf(str) == LET at == {i \in 1..Len(str) : str[i] = " "}
                          IN IF at = {} THEN 0 - 1 ELSE (CHOOSE i \in at : \A j \in at : j <= i) - 1
      dots == <<".", ".", ".">>
      wordStart == IndexOf(trimmed)
      headed == IF bestStart = 0 THEN trimmed
                ELSE dots \o (IF wordStart > 0 /\ wordStart < 20
                              THEN SubSeq(trimmed, wordStart + 2, Len(trimmed))
                              ELSE trimmed)
      lastSpace == LastIndexOf(headed)
  IN IF bestStart + MaxLength < Len(content)
     THEN (IF lastSpace > Len(headed) - 20 THEN SubSeq(headed, 1, lastSpace) ELSE headed) \o dots
     ELSE headed

\* a body of len characters: filler words of nine letters, and the given words
\* written over it, each at its offset (0 - n counts from the end)
Body(len, words) ==
  LET Place(w) == IF w.at < 0 THEN len + w.at ELSE w.at
      Over(i) == {w \in words : Place(w) < i /\ i <= Place(w) + Len(Chars(w.word))}
  IN [i \in 1..len |->
        IF Over(i) # {} THEN LET w == CHOOSE w \in Over(i) : TRUE
                             IN Chars(w.word)[i - Place(w)]
        ELSE IF i % 10 = 0 THEN " " ELSE "x"]

\* extractSnippet is called on a body and the tokens of a query
InitSnippet ==
  /\ ServerParked
  /\ \E len \in {MaxLength - Stride, MaxLength, MaxLength + 1, MaxLength + Stride,
                 MaxLength + Stride + 1, MaxBody},
        words \in {{}, {[word |-> "guide", at |-> 0]}, {[word |-> "guide", at |-> 0 - 7]},
                   {[word |-> "guide", at |-> 0], [word |-> "product", at |-> 0 - 9]},
                   {[word |-> "product", at |-> 61], [word |-> "guide", at |-> 0 - 7]}},
        queryWords \in {<<>>, <<Chars("guide")>>, <<Chars("product")>>,
                        <<Chars("guide"), Chars("product")>>} :
       job = [kind |-> "snippet", pc |-> "call", content |-> Body(len, words),
              queryWords |-> queryWords, bestStart |-> 0, snippet |-> <<>>]

\* extractSnippet
ExtractSnippet ==
  /\ job.kind = "snippet"
  /\ job.pc = "call"
  /\ \E bestStart \in {BestStart(ToLowerCase(job.content), job.queryWords, 0,
                                 [start |-> 0, score |-> 0])} :
       job' = [job EXCEPT !.pc = "returned", !.bestStart = bestStart,
                          !.snippet = SnippetAt(job.content, bestStart)]
  /\ UNCHANGED serverVars

SpecSnippet == InitSnippet /\ [][ExtractSnippet]_vars

\* ------------------------------------------------- the call-tool handler
\* the tools of the switch, and whether the handler of the tool begins by
\* parsing the arguments against its schema
Tools ==
  [search_docs |-> TRUE, get_page |-> TRUE, cache_stats |-> FALSE,
   find_graphql_type |-> TRUE, find_mutation |-> TRUE, find_query |-> TRUE,
   get_field_info |-> TRUE, find_code_example |-> TRUE, get_api_endpoint |-> TRUE,
   list_categories |-> FALSE, explain_error |-> TRUE, crawl_site |-> TRUE,
   rebuild_index |-> FALSE, search_advanced |-> TRUE]

\* the text of a response that carries the thrown value without a prefix
MessageOnly(error) == <<error.message>>

\* the text the catch block builds from the thrown value: the prefix and the
\* message, or a fixed message for a value that is not an Error
ErrorText(error) ==
  <<"Error: ", IF error.isError THEN error.message ELSE "Unknown error">>

\* a request arrives: name is any string, the arguments are an object the
\* schema of the tool accepts ("valid"), one it rejects ("invalid") or are
\* missing ("absent").  An unknown name throws inside the try block and is
\* answered at once; otherwise the handler runs up to the await on its promise.
CallTool ==
  /\ job.kind = "call"
  /\ job.pc \in {"idle", "responded"}
  /\ \E name \in DOMAIN Tools \cup {"no_such_tool"}, args \in {"valid", "invalid", "absent"} :
       job' = IF name \in DOMAIN Tools
              THEN [kind |-> "call", pc |-> "await", name |-> name, args |-> args,
                    thrown |-> "nothing", settled |-> "pending", content |-> <<>>]
              ELSE [kind |-> "call", pc |-> "responded", name |-> name, args |-> args,
                    thrown |-> "unknown tool", settled |-> "fulfilled",
                    content |-> <<[type |-> "text",
                                   text |-> ErrorText([isError |-> TRUE,
                                                       message |-> "Unknown tool: no_such_tool"])]>>]
  /\ UNCHANGED serverVars

\* the promise of the handler is fulfilled and its response is returned; a
\* handler that parses its arguments gets here only with arguments it accepts
HandlerFulfils ==
  /\ job.kind = "call"
  /\ job.pc = "await"
  /\ Tools[job.name] => job.args = "valid"
  /\ job' = [job EXCEPT !.pc = "responded", !.settled = "fulfilled",
                        !.content = <<[type |-> "text", text |-> <<"# result">>]>>]
  /\ UNCHANGED serverVars

\* the promise of the handler is rejected: by the schema (a ZodError), by an
\* Error the handler or a collaborator throws, or by a thrown value that is not
\* an Error; the catch block answers
HandlerRejects ==
  /\ job.kind = "call"
  /\ job.pc = "await"
  /\ \E error \in IF Tools[job.name] /\ job.args # "valid"
                 THEN {[cause |-> "validation", isError |-> TRUE, message |-> "[ZodError issues]"]}
                 ELSE {[cause |-> "handler error", isError |-> TRUE, message |-> "handler message"],
                       [cause |-> "handler error", isError |-> FALSE, message |-> ""]} :
       job' = [job EXCEPT !.pc = "responded", !.settled = "fulfilled",
                          !.thrown = IF error.isError THEN error.cause ELSE "not an Error",
                          !.content = <<[type |-> "text", text |-> ErrorText(error)]>>]
  /\ UNCHANGED serverVars

InitTools ==
  /\ ServerParked
  /\ job = [kind |-> "call", pc |-> "idle", name |-> "", args |-> "absent",
            thrown |-> "nothing", settled |-> "pending", content |-> <<>>]

NextTools == CallTool \/ HandlerFulfils \/ HandlerRejects

SpecTools == InitTools /\ [][NextTools]_vars

\* ----------------------------------------------------------------- claims
Seeds == {seedUrls[i] : i \in 1..Len(seedUrls)}

IsCrawl(c) == call[c].tool \in {"crawl", "crawl_site"}

\* the crawl of call c has returned its result
CrawlReturned(c) ==
  IsCrawl(c) /\ call[c].pc \in {"crawled", "list", "getdoc", "returned", "rejected"}

QueuedUrls == {queue[i].url : i \in 1..Len(queue)}

\* C1: during and after a crawl, the visited set is never larger than the
\* crawl's maxPages, and neither is the list of discovered urls it returns.
VisitedWithinMaxPages ==
  \A c \in Slots :
    IsCrawl(c) =>
      /\ Cardinality(visited) <= call[c].opts.maxPages
      /\ Cardinality(call[c].result.urlsDiscovered) <= call[c].opts.maxPages

\* a crawl stopped by its page budget with entries still queued
VisitedReachesMaxPages ==
  \E c \in Slots :
    /\ CrawlReturned(c)
    /\ call[c].opts.maxPages = 2
    /\ Cardinality(visited) = 2
    /\ Len(queue) > 0

AnswerFails(c) ==
  \/ call[c].pc = "has" /\ call[c].url \in env.hasFails
  \/ call[c].pc = "scrape" /\ call[c].url \in env.down
  \/ call[c].pc = "set" /\ call[c].url \in env.setFails \cup env.badHtml
  \/ call[c].pc = "get" /\ call[c].url \in env.getFails

\* C3: when the store lookup, the fetch, the store write, the link extraction
\* or the store read fails for the url a crawl has taken, the url is recorded as
\* failed and the crawl is back at the head of its loop with the queue as it was.
FailedUrlIsRecorded ==
  [][\A c \in Slots :
       (AnswerFails(c) /\ call'[c] # call[c]) =>
         /\ call[c].url \in failed'
         /\ call'[c].pc = "loop"
         /\ queue' = queue
         /\ visited' = visited]_vars

\* a page is fetched after an earlier url of the same crawl failed
FetchAfterFailure ==
  \E c \in Slots :
    /\ Crawling(c)
    /\ failed # {}
    /\ event = [op |-> "scrapePage", url |-> call[c].url, ok |-> TRUE, by |-> c]
    /\ call[c].url \notin failed

\* C4 as stated: every url a crawl has queued or visited passes the admission
\* test of the crawl's options (no exclude pattern matches and an include
\* pattern does; an empty include list admits, as shouldCrawl has it).
OnlyAdmittedUrls ==
  \A c \in Slots :
    (Crawling(c) \/ CrawlReturned(c)) =>
      \A url \in visited \cup QueuedUrls :
        /\ ~\E pattern \in call[c].opts.excludePatterns : PatternTest(pattern, url)
        /\ \/ call[c].opts.includePatterns = {}
           \/ \E pattern \in call[c].opts.includePatterns : PatternTest(pattern, url)

\* the urls pushed by the step, and their depths
PushedUrls == {queue'[i].url : i \in (Len(queue) + 1)..Len(queue')}

PushedDepths == {queue'[i].depth : i \in (Len(queue) + 1)..Len(queue')}

\* the same-site links of the stored page that the options admit
AdmittedStoredLinks(c) ==
  {link \in {cache[call[c].url][i] : i \in 1..Len(cache[call[c].url])} :
     /\ link[1] = baseUrl
     /\ ShouldCrawl(link, call[c].opts.includePatterns, call[c].opts.excludePatterns)}

\* C5: for a taken url the store has, the crawl goes on to read the stored page
\* (it neither fetches nor writes), the store stays as it is, and when the read
\* succeeds the admitted, unvisited links of the stored page are pushed at
\* depth + 1 and nothing else is.
CachedUrlIsNotFetched ==
  [][\A c \in Slots :
       /\ ( /\ call[c].pc = "has"
            /\ call'[c] # call[c]
            /\ call[c].url \in DOMAIN cache
            /\ call[c].url \notin env.hasFails )
          => call'[c].pc = "get" /\ cache' = cache
       /\ (call[c].pc = "get" /\ call'[c] # call[c])
          => /\ cache' = cache
             /\ call'[c].pc = "loop"
             /\ SubSeq(queue', 1, Len(queue)) = queue
             /\ call[c].url \notin env.getFails =>
                  /\ PushedUrls = AdmittedStoredLinks(c) \ visited
                  /\ PushedDepths \subseteq {call[c].depth + 1}]_vars

\* the stored copy of the intro page was read and its link pushed at depth 1
StoredLinksHarvested ==
  /\ event = [op |-> "get", url |-> Seed1, ok |-> TRUE, by |-> 1]
  /\ Seed1 \in DOMAIN cache
  /\ cache[Seed1] = OldIntroHtml
  /\ Len(queue) > 0
  /\ queue[Len(queue)] = [url |-> DeepUrl, depth |-> 1]

\* C6 as stated: a crawl that overlaps another keeps the urls it has taken in
\* the visited set, and returns exactly those as discovered.
CrawlsDoNotInterfere ==
  \A c \in Slots :
    /\ Crawling(c) => call[c].took \subseteq visited
    /\ CrawlReturned(c) => call[c].result.urlsDiscovered = call[c].took

\* C7 as stated: a search made while the index is being built sees the
\* documents from before the build or all the documents of the store.
SearchSeesWholeIndex ==
  (observed.seen /\ observed.during) => observed.docs \in {observed.before, observed.stored}

\* C8 as stated: with delayMs > 0 a crawl is back at the head of its loop after
\* a fetch only by way of the delay, and it waits only after a fresh page.
DelayAfterEveryFetch ==
  \A c \in Slots :
    (Crawling(c) /\ event.by = c /\ call[c].opts.delayMs > 0) =>
      /\ call[c].pc = "loop" => event.op \notin {"scrapePage", "set", "extractLinks"}
      /\ call[c].pc = "delay" => event.op = "set"

\* C9: a crawl whose pending calls are all answered returns; an entry is taken
\* only if it is not visited, not deeper than maxDepth and the visited set is
\* below maxPages; the loop ends only on an empty queue or a full visited set.
CrawlTerminates ==
  /\ \A c \in Slots : Crawling(c) ~> CrawlReturned(c)
  /\ [][\A c \in Slots :
          /\ (call[c].pc = "loop" /\ call'[c].pc = "has")
             => /\ call'[c].url \notin visited
                /\ call'[c].depth <= call[c].opts.maxDepth
                /\ Cardinality(visited) < call[c].opts.maxPages
          /\ (call[c].pc = "loop" /\ call'[c].pc \in {"returned", "crawled"})
             => queue' = <<>> \/ Cardinality(visited) >= call[c].opts.maxPages]_vars

\* a crawl with maxDepth 0 ended on an empty queue without the depth-1 page
DeepEntryDropped ==
  \E c \in Slots :
    /\ CrawlReturned(c)
    /\ call[c].opts.maxDepth = 0
    /\ queue = <<>>
    /\ GuideUrl \in visited \ failed
    /\ DeepUrl \notin visited

\* C10: when handleCrawlSite has returned, the indexed documents are exactly
\* the urls the store lists.
IndexRebuiltAfterCrawlSite ==
  \A c \in Slots :
    (call[c].tool = "crawl_site" /\ call[c].pc = "returned") =>
      documents = DOMAIN cache

\* crawl_site returned with pages it stored, and older ones, in the index
CrawledPagesIndexed ==
  \E c \in Slots :
    /\ call[c].tool = "crawl_site"
    /\ call[c].pc = "returned"
    /\ call[c].took \cap documents # {}
    /\ documents \ call[c].took # {}
    /\ documents = DOMAIN cache

\* ------------------------------------------------------ claims: sections
SectionsReturned == job.kind = "sections" /\ job.pc = "returned"

SectionIds == 1..Len(job.flat)

LevelOf(i) == job.flat[i].level

ChildrenOf(p) == {job.subsections[p][k] : k \in 1..Len(job.subsections[p])}

\* no heading is more than one level deeper than the heading before it
NoSkippedLevel ==
  \A i \in 2..Len(job.flat) : LevelOf(i) <= LevelOf(i - 1) + 1

\* C13 as stated: in a returned tree all children of one section have the same
\* level, whatever the heading levels are.
SiblingsShareLevel ==
  SectionsReturned =>
    \A p \in SectionIds : \A i, j \in ChildrenOf(p) : LevelOf(i) = LevelOf(j)

\* C13, amended: when no heading is more than one level deeper than the heading
\* before it, all children of one section have the same level, one more than
\* their parent's.
SiblingsShareLevelNoSkip ==
  (SectionsReturned /\ NoSkippedLevel) =>
    \A p \in SectionIds : \A i \in ChildrenOf(p) : LevelOf(i) = LevelOf(p) + 1

\* a returned tree without skipped levels in which a section has two children
\* and one of them has a child of its own
TwoSiblingsNoSkip ==
  /\ SectionsReturned
  /\ NoSkippedLevel
  /\ \E p \in SectionIds :
       /\ Len(job.subsections[p]) >= 2
       /\ \E i \in ChildrenOf(p) : job.subsections[i] # <<>>

\* the nearest earlier section with a strictly smaller level, 0 when none
NearestSmaller(i) ==
  LET smaller == {j \in 1..(i - 1) : LevelOf(j) < LevelOf(i)}
  IN IF smaller = {} THEN 0 ELSE CHOOSE j \in smaller : \A k \in smaller : k <= j

\* where section i hangs in the tree: its parents, and 0 if it is a root
HangsUnder(i) ==
  {p \in SectionIds : \E k \in 1..Len(job.subsections[p]) : job.subsections[p][k] = i}
  \cup (IF \E k \in 1..Len(job.rootSections) : job.rootSections[k] = i THEN {0} ELSE {})

RECURSIVE PreOrder(_)
\* the sections of a forest, parents before children, left to right
PreOrder(roots) ==
  IF roots = <<>> THEN <<>>
  ELSE <<Head(roots)>> \o PreOrder(job.subsections[Head(roots)]) \o PreOrder(Tail(roots))

\* C14: every section hangs exactly once in the returned tree, under the nearest
\* earlier section with a strictly smaller level or as a root when there is
\* none; a child's level is greater than its parent's; and the pre-order walk
\* of the tree is the document order.
SectionsNestUnderNearestSmaller ==
  SectionsReturned =>
    /\ \A i \in SectionIds : HangsUnder(i) = {NearestSmaller(i)}
    /\ \A p \in SectionIds : \A i \in ChildrenOf(p) : LevelOf(i) > LevelOf(p)
    /\ PreOrder(job.rootSections) = [i \in SectionIds |-> i]

\* H1, H2, H2 gave one root with the two H2 sections as its children, in order
IntroWithTwoChildren ==
  /\ SectionsReturned
  /\ Len(job.flat) = 3
  /\ LevelOf(1) = 1 /\ LevelOf(2) = 2 /\ LevelOf(3) = 2
  /\ job.rootSections = <<1>>
  /\ job.subsections = <<(<<2, 3>>), <<>>, <<>>>>

\* ------------------------------------------------------- claims: schemas
SchemasReturned == job.kind = "schemas" /\ job.pc = "returned"

\* C12 as stated: the result holds at most one fragment per kind and name.
OneFragmentPerKindAndName ==
  SchemasReturned =>
    \A i, j \in 1..Len(job.result) :
      (job.result[i].type = job.result[j].type /\ job.result[i].name = job.result[j].name)
        => i = j

\* C15 as stated: every arrangement of type Product { id: ID name: String }
\* parses to kind type, name Product and the fields id: ID and name: String.
ProductFieldsParsed ==
  (SchemasReturned /\ Len(job.elements) = 1 /\ job.elements[1].code \in ProductLayouts) =>
    /\ Len(job.result) = 1
    /\ job.result[1].type = "type"
    /\ job.result[1].name = "Product"
    /\ job.result[1].fields =
         <<[name |-> "id", type |-> <<"ID">>, description |-> <<>>],
           [name |-> "name", type |-> <<"String">>, description |-> <<>>]>>

\* ------------------------------------------------------------ claims: index
IndexedIds == {job.documents[i].id : i \in 1..Len(job.documents)}

\* the index holds again exactly the documents it held when it was cleared
Readded == job.kind = "index" /\ job.cleared.taken /\ IndexedIds = job.cleared.ids

\* C11: once the index has been cleared and the documents it held are added
\* again, in any order, getCategories and getStats report every category with
\* the count reported just before the clear; a second rebuild over the same
\* store therefore reports what the first one did.
RebuildKeepsCategoryCounts ==
  Readded =>
    /\ Range(GetCategories(job.documents)) = Range(job.cleared.stats.categories)
    /\ Range(GetStats(job).categories) = Range(job.cleared.stats.categories)

\* C11 witness: three documents, two of them in one category, are back after a
\* clear.
RebuiltWithSharedCategory ==
  /\ Readded
  /\ Len(job.documents) >= 3
  /\ \E entry \in Range(GetCategories(job.documents)) : entry.count = 2

\* ----------------------------------------------------------- claims: search
\* a search has returned or thrown
Searched == job.kind = "index" /\ job.returned.kind # "void"

Answered == job.kind = "index" /\ job.returned.kind = "results"

QueryWordsOf(query) == WordsLongerThan(ToLowerCase(query), 2)

\* the indexed documents the last search looked at: those that pass its filters
Considered ==
  {i \in 1..Len(job.documents) :
     /\ "category" \in DOMAIN job.returned.options =>
          job.documents[i].category = job.returned.options.category
     /\ "type" \in DOMAIN job.returned.options =>
          job.documents[i].type = job.returned.options.type}

\* the score the last search gave a document, 0 when it left it out
ScoreGiven(i) ==
  LET at == {k \in 1..Len(job.returned.results) :
               job.returned.results[k].url = job.documents[i].id}
  IN IF at = {} THEN 0 ELSE job.returned.results[CHOOSE k \in at : TRUE].score

\* C16 (as stated): every search returns exactly the first limit entries (10 by
\* default) of the ranking: the documents that pass the filters and score above
\* zero, by descending score, equal scores in the order the documents were
\* first added.
ReturnsFirstLimitOfRanking ==
  Searched =>
    /\ job.returned.kind = "results"
    /\ LET limit == IF "limit" \in DOMAIN job.returned.options
                    THEN job.returned.options.limit ELSE DefaultLimit
           ranked == {i \in Considered : ScoreGiven(i) > 0}
           Ahead(i) == {j \in ranked : \/ ScoreGiven(j) > ScoreGiven(i)
                                       \/ ScoreGiven(j) = ScoreGiven(i) /\ j < i}
           value == job.returned.value
       IN /\ Len(value) = IF limit < Cardinality(ranked) THEN limit ELSE Cardinality(ranked)
          /\ \A k \in 1..Len(value) :
               \E i \in ranked : /\ Cardinality(Ahead(i)) = k - 1
                                 /\ value[k].url = job.documents[i].id
                                 /\ value[k].score = ScoreGiven(i)

\* no query word matches the title, a keyword, a schema name or a section title
\* of the document
NoMatchOutsideBody(doc, queryWords) ==
  \A i \in 1..Len(queryWords) :
    /\ ~Includes(ToLowerCase(doc.title), queryWords[i])
    /\ \A k \in Range(doc.keywords) : ~Includes(k, queryWords[i])
    /\ \A t \in Range(doc.graphqlTypes) : ~Includes(ToLowerCase(t), queryWords[i])
    /\ \A t \in Range(doc.sections) : ~Includes(ToLowerCase(t), queryWords[i])

\* the document matched the query of the last search, and only in its body
MatchesOnlyInBody(i) ==
  /\ ScoreGiven(i) > 0
  /\ ToLowerCase(job.documents[i].title) # ToLowerCase(job.returned.query)
  /\ NoMatchOutsideBody(job.documents[i], QueryWordsOf(job.returned.query))

TitleIsQuery(i) == ToLowerCase(job.documents[i].title) = ToLowerCase(job.returned.query)

\* C17: in the answer of one search, a document whose title is the whole query
\* up to letter case has a strictly higher score than every document that
\* matched the query only in its body.
ExactTitleOutranksBodyOnly ==
  Answered =>
    \A i \in Considered, j \in Considered :
      TitleIsQuery(i) /\ MatchesOnlyInBody(j) => ScoreGiven(i) > ScoreGiven(j)

\* C17 witness: one answer holds a document titled as the query and a document
\* that reached the cap of the body score without any other match.
ExactTitleAndCappedBodyAnswered ==
  /\ Answered
  /\ \E i \in Considered, j \in Considered :
       TitleIsQuery(i) /\ MatchesOnlyInBody(j) /\ ScoreGiven(j) = 10

\* the occurrences of the word itself in the text, counted from the left
LiteralOccurrences(word, text) ==
  CountMatches([k \in 1..Len(word) |-> [char |-> word[k], plus |-> FALSE]], text, 1)

\* what 2 per occurrence, at most 10 per word, gives the body of a document
BodyPoints(doc, queryWords) ==
  LET Points(n) == IF n * 2 < 10 THEN n * 2 ELSE 10
      Sum[i \in 0..Len(queryWords)] ==
        IF i = 0 THEN 0
        ELSE Sum[i - 1] + Points(LiteralOccurrences(queryWords[i], ToLowerCase(doc.content)))
  IN Sum[Len(queryWords)]

\* a step that adds one more occurrence of the word to the body of document i
OneMoreOccurrence(i, word) ==
  /\ job.kind = "index" /\ job'.kind = "index"
  /\ i \in 1..Len(job.documents) /\ Len(job'.documents) = Len(job.documents)
  /\ job'.documents[i].id = job.documents[i].id
  /\ job'.documents[i].content \in {job.documents[i].content \o <<" ">> \o word, word}
  /\ Len(job'.documents[i].content) > Len(job.documents[i].content)

\* C18 (as stated): one more occurrence of a query word in the body of a
\* document never lowers the score of the document, and the body adds 2 per
\* occurrence of each query word, never more than 10 per word: a document that
\* matches nowhere else scores exactly that.
BodyScoresTwoPerOccurrence ==
  /\ [](Answered =>
         \A i \in Considered :
           NoMatchOutsideBody(job.documents[i], QueryWordsOf(job.returned.query))
             /\ ToLowerCase(job.documents[i].title) # ToLowerCase(job.returned.query)
           => ScoreGiven(i) = BodyPoints(job.documents[i], QueryWordsOf(job.returned.query)))
  /\ [][\A query \in Queries : \A w \in Range(QueryWordsOf(query)) :
          \A i \in 1..Len(job.documents) :
            /\ OneMoreOccurrence(i, w)
            /\ \A v \in Range(QueryWordsOf(query)) : RegExpCompiles(v)
            => Score(job'.documents[i], ToLowerCase(query), QueryWordsOf(query))
                 >= Score(job.documents[i], ToLowerCase(query), QueryWordsOf(query))]_vars

\* C19 (as stated): search returns a list, possibly empty, for every query
\* string; it never throws.
SearchNeverThrows == Searched => job.returned.kind = "results"

\* ------------------------------------------------------------ claims: tools
Responded == job.kind = "call" /\ job.pc = "responded"

\* C20: every call is answered by a returned response, never by a rejection;
\* when the tool name is unknown, the arguments fail the schema the handler
\* parses them with, or anything is thrown inside the handler, the response has
\* a single item, of type text, whose text starts with "Error: ".
CallToolAnswersErrorsAsText ==
  Responded =>
    /\ job.settled = "fulfilled"
    /\ job.thrown # "nothing" =>
         /\ Len(job.content) = 1
         /\ job.content[1].type = "text"
         /\ Head(job.content[1].text) = "Error: "
    /\ (job.name \notin DOMAIN Tools \/ (Tools[job.name] /\ job.args # "valid"))
         => job.thrown # "nothing"

\* C20 witness: a handler threw a value that is not an Error and the call was
\* answered.
NonErrorThrowAnswered ==
  Responded /\ job.thrown = "not an Error" /\ job.name = "get_page"

\* ------------------------------------------------------ claims: crawl result
\* C28: in the result of every crawl the failed urls are among the discovered
\* ones, the crawled and the failed urls are disjoint and together are the
\* discovered ones; while a crawl runs the failed set is part of the visited
\* set; and a url whose stored page has just been read is visited and not
\* failed, so it is returned as crawled.
CrawlResultPartitionsDiscovered ==
  \A c \in Slots :
    /\ IsCrawl(c) =>
         LET result == call[c].result
         IN /\ result.urlsFailed \subseteq result.urlsDiscovered
            /\ result.urlsCrawled \cap result.urlsFailed = {}
            /\ result.urlsCrawled \cup result.urlsFailed = result.urlsDiscovered
    /\ Crawling(c) => failed \subseteq visited
    /\ Crawling(c) /\ event = [op |-> "get", url |-> call[c].url, ok |-> TRUE, by |-> c]
         => call[c].url \in visited \ failed
    /\ CrawlReturned(c) /\ call[c].pc # "rejected" =>
         /\ call[c].result.urlsDiscovered = visited
         /\ call[c].result.urlsFailed = failed

\* C28 witness: a crawl has returned failed urls next to a crawled url that the
\* store served (the site is unreachable and the store held the intro page).
StoredUrlCrawledAmongFailures ==
  \E c \in Slots :
    /\ CrawlReturned(c)
    /\ env = Unreachable
    /\ call[c].result.urlsFailed # {}
    /\ Seed1 \in call[c].result.urlsCrawled

\* ------------------------------------------------------- claims: crawl order
QueueDepths == {queue[i].depth : i \in 1..Len(queue)}

\* C29: while a crawl runs the queue is in nondecreasing depth order and no
\* entry is more than one level below the url being processed; the urls are
\* taken in nondecreasing depth order, each with a depth of at most maxDepth.
QueueInDepthOrder ==
  /\ [](\A c \in Slots :
          Crawling(c) =>
            /\ \A i \in 1..Len(queue), j \in 1..Len(queue) :
                 i < j => queue[i].depth <= queue[j].depth
            /\ \A d \in QueueDepths : d <= call[c].depth + 1
            /\ call[c].depth <= call[c].opts.maxDepth)
  /\ [][\A c \in Slots :
          Crawling(c) /\ call'[c].pc = "has" /\ call[c].pc = "loop" =>
            /\ call'[c].depth >= call[c].depth
            /\ call'[c].depth <= call[c].opts.maxDepth
            /\ \E i \in 1..Len(queue) :
                 queue[i] = [url |-> call'[c].url, depth |-> call'[c].depth]]_vars

\* C29 witness: a url of depth 1 is being processed while entries of depth 1
\* and of depth 2 wait in the queue.
TwoDepthsQueued ==
  \E c \in Slots :
    /\ Crawling(c)
    /\ call[c].depth = 1
    /\ QueueDepths = {1, 2}

\* ----------------------------------------------------- claims: one fetch
\* C22: within one crawl a url is taken from the queue at most once, and
\* scrapePage is called only for the url just taken; a url that is visited or
\* has failed is never taken again, however often later pages link to it.
FetchedAtMostOnce ==
  [][\A c \in Slots :
       /\ (call[c].pc = "loop" /\ call'[c].pc = "has") =>
            /\ call'[c].url \notin call[c].took
            /\ call'[c].url \notin visited
            /\ call'[c].url \notin failed
       /\ (call'[c].pc = "scrape" /\ call[c].pc # "scrape") =>
            /\ call[c].pc = "has"
            /\ call'[c].url = call[c].url
            /\ call[c].url \notin failed]_vars

\* C22 witness: a url whose fetch failed waits in the queue again, pushed as a
\* link of a page fetched before it, while the crawl has gone on to a later url.
FailedUrlQueuedAgain ==
  \E c \in Slots :
    /\ Crawling(c)
    /\ call[c].pc = "scrape"
    /\ \E u \in failed : u \in env.down /\ u \in QueuedUrls /\ u # call[c].url

\* ------------------------------------------------- claims: schema fragments
\* C24 (as stated): no returned fragment has a raw text of fewer than 20
\* characters, whether it came from a code element or from a string in a script.
NoShortFragment ==
  SchemasReturned =>
    \A i \in 1..Len(job.result) : RawLength(job.result[i].raw) >= MinCodeLength

\* the first rule that matches the block is the type|interface rule
TypeRuleDecides(code) ==
  /\ ~RootTypeTest(code, "Query") /\ ~RootTypeTest(code, "Mutation")
  /\ NamedBlock(code, {"input"}) = "" /\ NamedBlock(code, {"enum"}) = ""
  /\ NamedBlock(code, {"type", "interface"}) # ""

\* C25 (as stated): a fragment classified by the type|interface rule carries the
\* declared name, and the kind type for a type declaration, interface for an
\* interface declaration; every returned kind is one of the six kinds.
TypeOrInterfaceKind ==
  SchemasReturned =>
    \A i \in 1..Len(job.result) :
      LET fragment == job.result[i]
      IN /\ fragment.type \in {"type", "input", "enum", "interface", "query", "mutation"}
         /\ TypeRuleDecides(fragment.raw) =>
              /\ fragment.name = NamedBlock(fragment.raw, {"type", "interface"})
              /\ NamedBlock(fragment.raw, {"interface"}) = "" => fragment.type = "type"
              /\ NamedBlock(fragment.raw, {"type"}) = "" => fragment.type = "interface"

\* ------------------------------------------------- claims: index consistency
\* C30 (as stated): after any sequence of addDocument and clear the index holds
\* at most one document per url, every id filed under a keyword or a schema name
\* is a current document whose own keywords or schema names contain that entry,
\* and findByGraphQLType returns only documents that contain the schema.
PostingsAgreeWithDocuments ==
  job.kind = "index" =>
    LET docs == job.documents
        Doc(id) == docs[CHOOSE i \in 1..Len(docs) : docs[i].id = id]
        Current(id) == \E i \in 1..Len(docs) : docs[i].id = id
        SchemaNames(doc) == {ToLowerCase(t) : t \in Range(doc.graphqlTypes)}
    IN /\ \A i, j \in 1..Len(docs) : docs[i].id = docs[j].id => i = j
       /\ \A entry \in job.keywords :
            Current(entry[2]) /\ entry[1] \in Range(Doc(entry[2]).keywords)
       /\ \A entry \in job.graphqlTypes :
            Current(entry[2]) /\ entry[1] \in SchemaNames(Doc(entry[2]))
       /\ \A result \in FindByGraphQLType(job, Chars("Product")) :
            ToLowerCase(Chars("Product")) \in SchemaNames(Doc(result.url))

\* ------------------------------------------------- claims: query tokens
\* the words of a query under the normalisation of the index: lower case, every
\* character that is neither a letter, a digit nor white space taken for a blank
IndexWords(query) ==
  LET lower == ToLowerCase(query)
      plain == [i \in 1..Len(lower) |-> IF lower[i] \in {"+", ",", ":", "/", ".", "-"}
                                        THEN " " ELSE lower[i]]
  IN WordsLongerThan(plain, 0)

\* what an unfiltered search for the query finds in the documents indexed now
FoundFor(query) ==
  LET queryLower == ToLowerCase(query)
  IN {result \in {[url |-> job.documents[i].id, title |-> job.documents[i].title,
                   score |-> Score(job.documents[i], queryLower, QueryWords(queryLower))] :
                     i \in 1..Len(job.documents)} : result.score > 0}

\* C27 (as stated): a query is tokenized under the normalisation of the index, so
\* two queries that differ only in punctuation or case find the same results.
PunctuationAndCaseIgnored ==
  (job.kind = "index" /\ job.returned.kind = "results"
     /\ DOMAIN job.returned.options \subseteq {"limit"}) =>
    \A other \in Queries :
      (/\ IndexWords(other) = IndexWords(job.returned.query)
       /\ \A i \in 1..Len(QueryWords(ToLowerCase(other))) :
            RegExpCompiles(QueryWords(ToLowerCase(other))[i]))
        => FoundFor(other) = Range(job.returned.results)

\* ------------------------------------------------- claims: snippet window
\* C26 (as stated): for a body of more than 200 characters the window kept holds
\* at least as many distinct query tokens as every 200-character window that
\* starts at a multiple of 50 and lies inside the body, and it is the earliest
\* of the windows as good as it.
BestWindowKept ==
  (job.kind = "snippet" /\ job.pc = "returned" /\ Len(job.content) > MaxLength) =>
    LET lower == ToLowerCase(job.content)
        Tokens(i) == Cardinality({w \in Range(job.queryWords) :
                                    Includes(SubSeq(lower, i + 1, i + MaxLength), w)})
        inside == {i \in 0..(Len(lower) - MaxLength) : i % Stride = 0}
    IN \A i \in inside :
         /\ Tokens(job.bestStart) >= Tokens(i)
         /\ Tokens(i) = Tokens(job.bestStart) => job.bestStart <= i

\* ------------------------------------------------- claims: links
\* the origin of a url: its pieces before the path
OriginOf(url) ==
  LET path == {i \in 1..Len(url) : url[i] \in PathTokens \cup {"/"}}
  IN IF path = {} THEN url
     ELSE SubSeq(url, 1, (CHOOSE i \in path : \A j \in path : i <= j) - 1)

\* C21 (as stated): every link extractLinks returns has no fragment and the
\* origin https://ikas.dev; an href that is only a fragment yields no link; a
\* link to another host is neither returned nor pushed on the queue.
LinksStayOnSite ==
  (job.kind = "links" /\ job.pc = "returned") =>
    /\ \A i \in 1..Len(job.links) :
         /\ \A k \in 1..Len(job.links[i]) : job.links[i][k] \notin Fragments
         /\ OriginOf(job.links[i]) = <<baseUrl>>
    /\ (\A i \in 1..Len(job.html) : job.html[i][1] \in Fragments) => job.links = <<>>
    /\ \A i \in 1..Len(job.pushed) : OriginOf(job.pushed[i].url) = <<baseUrl>>

\* ------------------------------------------------- claims: playground
\* C23: for a url that contains /playground scrapePage fetches with the browser
\* only; when the content extracted is shorter than 100 characters the page
\* returned carries the fallback (its title, the PLAYGROUND_INFO text, three
\* sections of level 2, one POST endpoint) and the hash of the fallback text; so
\* no playground page returned has a content shorter than 100 characters.
PlaygroundPageHasContent ==
  (job.kind = "scrape" /\ job.pc = "returned" /\ IsPlayground(job.url)) =>
    /\ job.fetches = <<"puppeteer">>
    /\ job.outcome.kind = "page" =>
         LET page == job.outcome.page
             sections == page.extractedContent.sections
             apiEndpoints == page.extractedContent.apiEndpoints
         IN /\ job.site.rendered.extracted.content.length < 100 =>
                 /\ page.title = "ikas GraphQL Playground"
                 /\ page.content = PLAYGROUND_INFO
                 /\ Len(sections) = 3 /\ \A i \in 1..3 : sections[i].level = 2
                 /\ Len(apiEndpoints) = 1 /\ apiEndpoints[1].method = "POST"
                 /\ page.hash = Sha256(PLAYGROUND_INFO)
            /\ page.content.length >= 100

\* a playground page whose extracted content was too short has been returned
PlaygroundFallbackReturned ==
  /\ job.kind = "scrape" /\ job.pc = "returned" /\ IsPlayground(job.url)
  /\ job.outcome.kind = "page"
  /\ job.site.rendered.extracted.content.length < 100
  /\ job.outcome.page.content = PLAYGROUND_INFO

====
